---- MODULE Spec2Model ----
(***************************************************************************)
(* A model of the mini DSL for Gurobi: the N-dimensional variable tree     *)
(* (VariableGroup), its factory (VariableFactory), the keyed table         *)
(* (VariableTable), the naming helpers and the variadic iteration and      *)
(* summation engine (forEach / sum), the constraint helpers, the           *)
(* comprehensions (comp / compND / sumOver) and the solve orchestration of *)
(* ModelBuilder and ModelBuilderGeneric.                                   *)
(*                                                                         *)
(* GRBModel, GRBVar and GRBLinExpr belong to the external solver library.  *)
(* A GRBModel is modelled by the sequence of the variables added to it     *)
(* (model), the sequence of its constraints (constrs) and its parameters,  *)
(* a GRBVar by the position of its variable in that sequence (NullVar for  *)
(* a default-constructed handle), a GRBLinExpr by a constant and a list of *)
(* (coefficient, variable) terms.                                          *)
(***************************************************************************)
EXTENDS Integers, Sequences, FiniteSets, TLC

\* ------------------------------------------------------------------ bounds

\* Largest size of one dimension, and largest index, the model enumerates.
MaxSize == 2
\* Largest number of dimensions of a shape or of an index tuple.
MaxRank == 2
\* Cap on the variables the GRBModel of the table specification holds.
MaxVars == 3

\* Largest bound of an index range, and largest number of ranges of one
\* traversal, the model enumerates.
MaxEnd == 2
MaxRanges == 2
\* INT_MAX of the model's int: the value whose increment overflows.
IntMax == 3
\* the constraint helpers a caller runs on one model
MaxConstrs == 2
\* the solve() calls made on one builder
MaxSolves == 2
\* the traversals made of one RangeView
MaxTraversals == 2

\* ------------------------------------------------------------------ inputs

RECURSIVE TuplesOf(_, _)
\* All sequences of length n over S.
TuplesOf(S, n) ==
    IF n = 0 THEN {<<>>}
    ELSE {<<h>> \o t : h \in S, t \in TuplesOf(S, n - 1)}

\* All sequences over S of length 0..n.
TuplesUpTo(S, n) == UNION {TuplesOf(S, k) : k \in 0..n}

\* Sizes handed to the factory: any integral value, a negative one included.
SizeArgs == -1..MaxSize
Shapes == TuplesUpTo(SizeArgs, MaxRank)

\* Indices handed to at(): any integral value.
IndexArgs == -1..MaxSize
IndexTuples == TuplesUpTo(IndexArgs, MaxRank)

\* The declarations a caller makes: type, bounds and base name of a family.
Decls ==
    { [vtype |-> "B", lb |-> 0, ub |-> 1, baseName |-> "x"],
      [vtype |-> "C", lb |-> -1, ub |-> 5, baseName |-> "cost"] }

\* enum class FacilityVars { Open, Assign, MAX }: the table has MAX slots.
MAX == 2
Keys == 0..(MAX - 1)

\* The shapes the table specification builds, and the index tuples it looks
\* up: every tuple of at most two indices, each inside or just outside them.
TableShapes == {<<>>, <<2>>, <<1, 2>>}
TableIndexTuples == TuplesUpTo(-1..2, 2)

RECURSIVE Product(_)
\* d1 * ... * dk, 1 for the empty shape.
Product(s) == IF s = <<>> THEN 1 ELSE Head(s) * Product(Tail(s))

\* ------------------------------------------------------------------ naming

\* A part handed to make_name: a string or an int.
StrPart(s) == [type |-> "str", str |-> s, val |-> 0]
IntPart(i) == [type |-> "int", str |-> "", val |-> i]

\* oss << part: a string as it is, an int in decimal.
Streamed(part) == IF part.type = "int" THEN ToString(part.val) ELSE part.str

RECURSIVE Concatenated_Reversed(_)
\* The fold streaming its parts last to first.
Concatenated_Reversed(parts) ==
    IF parts = <<>> THEN ""
    ELSE Concatenated_Reversed(Tail(parts)) \o Streamed(Head(parts))

RECURSIVE Concatenated(_)
\* The fold ((oss << parts), ...) followed by oss.str().
Concatenated(parts) ==
    IF parts = <<>> THEN "" ELSE Streamed(Head(parts)) \o Concatenated(Tail(parts))

\* mini::dsl::make_name(parts...): no naming flag is consulted.
dsl_make_name(parts) == Concatenated(parts)

\* mini::naming::make_name(parts...): "" with names off.
make_name(debugNames, parts) == IF ~debugNames THEN "" ELSE Concatenated(parts)

RECURSIVE IndexList(_)
\* The body of nameND's loop: the indices, separated by ",".
IndexList(indices) ==
    IF Len(indices) = 1 THEN ToString(Head(indices))
    ELSE ToString(Head(indices)) \o "," \o IndexList(Tail(indices))

\* nameND that leaves the closing bracket out.
nameND_Unclosed(debugNames, base, indices) ==
    IF ~debugNames THEN ""
    ELSE IF indices = <<>> THEN base
    ELSE base \o "[" \o IndexList(indices)

\* nameND that builds the name whatever the flag says.
nameND_IgnoresFlag(debugNames, base, indices) ==
    IF indices = <<>> THEN base
    ELSE base \o "[" \o IndexList(indices) \o "]"

\* mini::naming::nameND(base, indices).
nameND(debugNames, base, indices) ==
    IF ~debugNames THEN ""
    ELSE IF indices = <<>> THEN base
    ELSE base \o "[" \o IndexList(indices) \o "]"

\* mini::constraint::cnameND(base, idx): the same under DEBUG_CONSTRAINT_NAMES.
cnameND(debugConstraintNames, base, idx) ==
    IF ~debugConstraintNames THEN ""
    ELSE IF idx = <<>> THEN base
    ELSE base \o "[" \o IndexList(idx) \o "]"

\* ------------------------------------------------------------------ solver

\* GRBVar(): a handle attached to no model.
NullVar == 0

\* addVar called with the bounds in the wrong order.
addVar_SwappedBounds(m, refuse, lb, ub, vtype, name) ==
    IF refuse # 0 /\ Len(m) + 1 = refuse
    THEN [model |-> m, var |-> NullVar, err |-> "GRBException"]
    ELSE [model |-> Append(m, [lb |-> ub, ub |-> lb, vtype |-> vtype, name |-> name]),
          var |-> Len(m) + 1, err |-> "none"]

\* GRBModel::addVar(lb, ub, 0.0, vtype, name): the model with the variable
\* appended, and the handle of the new variable.  The solver may fail in
\* any call: refuse names the variable of the model (the refuse-th) whose
\* creation throws a GRBException and registers nothing; 0 when none does.
addVar(m, refuse, lb, ub, vtype, name) ==
    IF refuse # 0 /\ Len(m) + 1 = refuse
    THEN [model |-> m, var |-> NullVar, err |-> "GRBException"]
    ELSE [model |-> Append(m, [lb |-> lb, ub |-> ub, vtype |-> vtype, name |-> name]),
          var |-> Len(m) + 1, err |-> "none"]

\* ------------------------------------------------------------------ VariableGroup

\* Node(): no handle, no children.
DefaultNode == [scalar |-> NullVar, children |-> <<>>]

\* Node(const GRBVar& v).
LeafNode(v) == [scalar |-> v, children |-> <<>>]

\* Node(size_t n): n default children.
SizedNode(n) == [scalar |-> NullVar, children |-> [i \in 1..n |-> DefaultNode]]

\* VariableGroup(): default root, dims = 0.
DefaultGroup == [root |-> DefaultNode, dims |-> 0]

\* VariableGroup(Node&& r, int d).
MakeGroup(r, d) == [root |-> r, dims |-> d]

\* VariableGroup(const GRBVar& v).
ScalarGroup(v) == [root |-> LeafNode(v), dims |-> 0]

\* What an access returns: a reference to the GRBVar of a node (ref is the
\* path of the node from the root, var the handle stored there), or the
\* exception thrown.  examined counts the indices compared with a child count.
\* The exceptions: "DimensionMismatch" is at()'s std::runtime_error (wrong
\* number of indices), "NotScalar" is scalar()'s std::runtime_error and
\* "IndexOutOfRange" is atRec()'s std::out_of_range.
Found(path, v, k) == [status |-> "ok", ref |-> path, var |-> v, examined |-> k]
Thrown(what, k) == [status |-> what, ref |-> <<>>, var |-> NullVar, examined |-> k]

RECURSIVE atRec_OffByOne(_, _, _)
\* atRec with the bound test written i > size: index size is let through and
\* reads one past the children.
atRec_OffByOne(n, idx, path) ==
    IF idx = <<>> THEN Found(path, n.scalar, Len(path))
    ELSE LET i == Head(idx) IN
         IF i < 0 \/ i > Len(n.children)
         THEN Thrown("IndexOutOfRange", Len(path) + 1)
         ELSE IF i = Len(n.children) THEN Found(path \o idx, NullVar, Len(path) + 1)
         ELSE atRec_OffByOne(n.children[i + 1], Tail(idx), path \o <<i>>)

RECURSIVE atRec(_, _, _)
\* VariableGroup::atRec(n, i, rest...): path is the indices consumed so far.
atRec(n, idx, path) ==
    IF idx = <<>> THEN Found(path, n.scalar, Len(path))
    ELSE LET i == Head(idx) IN
         IF i < 0 \/ i >= Len(n.children)
         THEN Thrown("IndexOutOfRange", Len(path) + 1)
         ELSE atRec(n.children[i + 1], Tail(idx), path \o <<i>>)

\* at() without the test of the number of indices.
at_NoCountCheck(g, idx) == atRec(g.root, idx, <<>>)

\* VariableGroup::at(idx...).
at(g, idx) ==
    IF Len(idx) # g.dims THEN Thrown("DimensionMismatch", 0)
    ELSE atRec(g.root, idx, <<>>)

\* scalar() that throws only above one dimension: dims > 1.
scalar_AllowsOneDim(g) ==
    IF g.dims > 1 THEN Thrown("NotScalar", 0)
    ELSE Found(<<>>, g.root.scalar, 0)

\* VariableGroup::scalar().
scalar(g) ==
    IF g.dims # 0 THEN Thrown("NotScalar", 0)
    ELSE Found(<<>>, g.root.scalar, 0)

\* ------------------------------------------------------------------ VariableFactory

\* What a factory call hands back: the model as it left it, the exception
\* thrown ("none" when it returned) and the node or value built.
Built(m, node) == [model |-> m, err |-> "none", node |-> node]
Failed(m, what) == [model |-> m, err |-> what, node |-> DefaultNode]

RECURSIVE addNode(_, _, _, _, _, _, _, _)
RECURSIVE addNodeLoop(_, _, _, _, _, _, _, _, _, _)

\* The for loop of addNode, from index i on: node is the node filled so far.
\* An exception of addVar or of a nested addNode leaves the loop and the
\* function: nothing here catches it.
addNodeLoop(debugNames, m, refuse, vtype, lb, ub, name, sizes, i, node) ==
    IF ~(i < Head(sizes)) THEN Built(m, node)
    ELSE IF Len(sizes) = 1
    THEN LET varName == nameND(debugNames, name, <<i>>)
             added == addVar(m, refuse, lb, ub, vtype, varName)
         IN  IF added.err # "none" THEN Failed(added.model, added.err)
             ELSE addNodeLoop(debugNames, added.model, refuse, vtype, lb, ub, name,
                      sizes, i + 1,
                      [node EXCEPT !.children[i + 1] = LeafNode(added.var)])
    ELSE LET subName == nameND(debugNames, name, <<i>>)
             sub == addNode(debugNames, m, refuse, vtype, lb, ub, subName, Tail(sizes))
         IN  IF sub.err # "none" THEN Failed(sub.model, sub.err)
             ELSE addNodeLoop(debugNames, sub.model, refuse, vtype, lb, ub, name,
                      sizes, i + 1,
                      [node EXCEPT !.children[i + 1] = sub.node])

\* addNode that refuses an empty dimension.
addNode_RejectsZero(debugNames, m, refuse, vtype, lb, ub, name, sizes) ==
    IF Head(sizes) <= 0 THEN Failed(m, "length_error")
    ELSE addNodeLoop(debugNames, m, refuse, vtype, lb, ub, name, sizes, 0,
             SizedNode(Head(sizes)))

\* VariableFactory::addNode(model, vtype, lb, ub, name, n, sizes...).
\* Node(static_cast<size_t>(n)) of a negative n asks for a vector beyond
\* max_size() and throws std::length_error.
addNode(debugNames, m, refuse, vtype, lb, ub, name, sizes) ==
    IF Head(sizes) < 0 THEN Failed(m, "length_error")
    ELSE addNodeLoop(debugNames, m, refuse, vtype, lb, ub, name, sizes, 0,
             SizedNode(Head(sizes)))

\* add that takes the variables it registered out of the model again when
\* the solver fails.
add_RollsBack(debugNames, m, refuse, vtype, lb, ub, baseName, sizes) ==
    IF sizes = <<>>
    THEN LET name == make_name(debugNames, <<StrPart(baseName)>>)
             added == addVar(m, refuse, lb, ub, vtype, name)
         IN  [model |-> added.model, err |-> added.err, kind |-> "var",
              var |-> added.var, group |-> DefaultGroup]
    ELSE LET r == addNode(debugNames, m, refuse, vtype, lb, ub, baseName, sizes)
         IN  [model |-> IF r.err = "GRBException" THEN m ELSE r.model,
              err |-> r.err, kind |-> "group", var |-> NullVar,
              group |-> IF r.err = "none" THEN MakeGroup(r.node, Len(sizes))
                        ELSE DefaultGroup]

\* VariableFactory::add(model, vtype, lb, ub, baseName, sizes...): a GRBVar
\* for no sizes, a VariableGroup otherwise; nothing is returned when an
\* exception leaves it.
add(debugNames, m, refuse, vtype, lb, ub, baseName, sizes) ==
    IF sizes = <<>>
    THEN LET name == make_name(debugNames, <<StrPart(baseName)>>)
             added == addVar(m, refuse, lb, ub, vtype, name)
         IN  [model |-> added.model, err |-> added.err, kind |-> "var",
              var |-> added.var, group |-> DefaultGroup]
    ELSE LET r == addNode(debugNames, m, refuse, vtype, lb, ub, baseName, sizes)
         IN  [model |-> r.model, err |-> r.err, kind |-> "group",
              var |-> NullVar,
              group |-> IF r.err = "none" THEN MakeGroup(r.node, Len(sizes))
                        ELSE DefaultGroup]

RECURSIVE createNode(_)
RECURSIVE createNodeLoop(_, _, _)

\* The for loop of createNode stopping one child early: i < n - 1.
createNodeLoop_OneFewer(sizes, i, node) ==
    IF ~(i < Head(sizes) - 1) THEN Built(<<>>, node)
    ELSE IF Len(sizes) = 1
    THEN createNodeLoop(sizes, i + 1, [node EXCEPT !.children[i + 1] = LeafNode(NullVar)])
    ELSE LET sub == createNode(Tail(sizes))
         IN  IF sub.err # "none" THEN Failed(<<>>, sub.err)
             ELSE createNodeLoop(sizes, i + 1, [node EXCEPT !.children[i + 1] = sub.node])

\* The for loop of createNode, from index i on.
createNodeLoop(sizes, i, node) ==
    IF ~(i < Head(sizes)) THEN Built(<<>>, node)
    ELSE IF Len(sizes) = 1
    THEN createNodeLoop(sizes, i + 1, [node EXCEPT !.children[i + 1] = LeafNode(NullVar)])
    ELSE LET sub == createNode(Tail(sizes))
         IN  IF sub.err # "none" THEN Failed(<<>>, sub.err)
             ELSE createNodeLoop(sizes, i + 1, [node EXCEPT !.children[i + 1] = sub.node])

\* VariableFactory::createNode(n, sizes...): the independent tree.
createNode(sizes) ==
    IF Head(sizes) < 0 THEN Failed(<<>>, "length_error")
    ELSE createNodeLoop(sizes, 0, SizedNode(Head(sizes)))

\* VariableFactory::create(sizes...): handles attached to no model.
create(sizes) ==
    IF sizes = <<>>
    THEN [err |-> "none", kind |-> "var", var |-> NullVar, group |-> DefaultGroup]
    ELSE LET r == createNode(sizes)
         IN  [err |-> r.err, kind |-> "group", var |-> NullVar,
              group |-> IF r.err = "none" THEN MakeGroup(r.node, Len(sizes))
                        ELSE DefaultGroup]

\* ------------------------------------------------------------------ Indexing

\* RangeView(start, end).
RangeView(start, end) == [start |-> start, end |-> end]

\* indices that starts at 1.
indices_FromOne(n) == RangeView(1, n)

\* indices(n) and range(start, end).
indices(n) == RangeView(0, n)
range(start, end) == RangeView(start, end)

\* RangeView::size().
size(r) == r.end - r.start

\* RangeView::Iterator(v), operator*, operator++ and operator!=.
Iterator(v) == [value |-> v]
Iterator_deref(it) == it.value
Iterator_inc(it) == Iterator(it.value + 1)
Iterator_neq(it, other) == it.value # other.value

\* begin() that starts one past start_.
RangeView_begin_PastStart(r) == Iterator(r.start + 1)

\* RangeView::begin() and RangeView::end().
RangeView_begin(r) == Iterator(r.start)
RangeView_end(r) == Iterator(r.end)

\* Ranges as the data model has them: start <= end.
WellFormed(rs) == \A j \in 1..Len(rs) : rs[j].start <= rs[j].end

\* GRBLinExpr: 0, and operator+=.
ZeroExpr == [const |-> 0, terms |-> <<>>]
PlusExpr(a, b) == [const |-> a.const + b.const, terms |-> a.terms \o b.terms]

\* toExpr whose numeric overloads return an empty expression.
toExpr_DropsNumbers(v) ==
    CASE v.type = "var" -> PlusExpr(ZeroExpr, [const |-> 0, terms |-> <<[coef |-> 1, var |-> v.var]>>])
      [] v.type = "expr" -> v.expr
      [] v.type = "double" -> ZeroExpr
      [] v.type = "int" -> ZeroExpr

\* toExpr(v): the overload is chosen by the type of what f returned.  The
\* int overload converts to double and takes the double overload.
toExpr(v) ==
    CASE v.type = "var" -> PlusExpr(ZeroExpr, [const |-> 0, terms |-> <<[coef |-> 1, var |-> v.var]>>])
      [] v.type = "expr" -> v.expr
      [] v.type = "double" -> PlusExpr(ZeroExpr, [const |-> v.val, terms |-> <<>>])
      [] v.type = "int" -> PlusExpr(ZeroExpr, [const |-> v.val, terms |-> <<>>])

RECURSIVE SumSeq(_)
SumSeq(q) == IF q = <<>> THEN 0 ELSE Head(q) + SumSeq(Tail(q))

\* The lambdas a caller hands to sum, by the type they return: a count, a
\* cost coefficient, the variable x(i) of the first index, and a weighted
\* variable plus a constant.
Lambdas == {"int", "double", "var", "expr"}
Apply(f, idxs) ==
    CASE f = "int" -> [type |-> "int", val |-> 1]
      [] f = "double" -> [type |-> "double", val |-> 2 + SumSeq(idxs)]
      [] f = "var" -> [type |-> "var", var |-> 1 + (IF idxs = <<>> THEN 0 ELSE Head(idxs))]
      [] f = "expr" ->
            [type |-> "expr",
             expr |-> [const |-> 3,
                       terms |-> <<[coef |-> 2,
                                    var |-> 1 + (IF idxs = <<>> THEN 0 ELSE idxs[Len(idxs)])]>>]]

\* What a traversal did: the argument tuples f was called with, in call
\* order, the running total (sum only), and whether ++value overflowed int
\* (undefined behaviour: nothing is known of what follows).
Trace(calls, total, ub) == [calls |-> calls, total |-> total, ub |-> ub]

RECURSIVE ForEachLoop_run(_, _)
RECURSIVE ForEachLoop_for(_, _, _)

\* The loop of ForEachLoop::run passing the new index first: run(f, rest..., i, idxs...).
ForEachLoop_for_IndexFirst(value, ranges, idxs) ==
    IF ~(value # Head(ranges).end) THEN Trace(<<>>, ZeroExpr, FALSE)
    ELSE LET body == ForEachLoop_run(Tail(ranges), <<value>> \o idxs) IN
         IF body.ub THEN body
         ELSE IF value = IntMax THEN Trace(body.calls, ZeroExpr, TRUE)
         ELSE LET rest == ForEachLoop_for(value + 1, ranges, idxs)
              IN  Trace(body.calls \o rest.calls, ZeroExpr, rest.ub)

\* for (auto i : range) of ForEachLoop::run, with the iterator at value:
\* the loop ends when value == end_ (operator!=), each step is ++value_.
ForEachLoop_for(value, ranges, idxs) ==
    IF ~(value # Head(ranges).end) THEN Trace(<<>>, ZeroExpr, FALSE)
    ELSE LET body == ForEachLoop_run(Tail(ranges), Append(idxs, value)) IN
         IF body.ub THEN body
         ELSE IF value = IntMax THEN Trace(body.calls, ZeroExpr, TRUE)
         ELSE LET rest == ForEachLoop_for(value + 1, ranges, idxs)
              IN  Trace(body.calls \o rest.calls, ZeroExpr, rest.ub)

\* ForEachLoop<F, Range, Rest...>::run and the base case ForEachLoop<F>::run.
ForEachLoop_run(ranges, idxs) ==
    IF ranges = <<>> THEN Trace(<<idxs>>, ZeroExpr, FALSE)
    ELSE ForEachLoop_for(Head(ranges).start, ranges, idxs)

\* forEach(f, ranges...).
forEach(ranges) == ForEachLoop_run(ranges, <<>>)

RECURSIVE SumLoop_run(_, _, _, _)
RECURSIVE SumLoop_for(_, _, _, _, _)

\* The loop of SumLoop::run written as do { ... } while: the body runs
\* before the iterator is compared with end().
SumLoop_for_BodyFirst(total, f, value, ranges, idxs) ==
    LET body == SumLoop_run(total, f, Tail(ranges), Append(idxs, value)) IN
    IF body.ub THEN body
    ELSE IF value = IntMax THEN Trace(body.calls, body.total, TRUE)
    ELSE IF ~(value + 1 # Head(ranges).end) THEN body
    ELSE LET rest == SumLoop_for(body.total, f, value + 1, ranges, idxs)
         IN  Trace(body.calls \o rest.calls, rest.total, rest.ub)

\* The loop of SumLoop::run walking the range from its last element down.
SumLoop_for_Descending(total, f, value, ranges, idxs) ==
    IF ~(value # Head(ranges).end) THEN Trace(<<>>, total, FALSE)
    ELSE IF value = IntMax THEN Trace(<<>>, total, TRUE)
    ELSE LET rest == SumLoop_for(total, f, value + 1, ranges, idxs)
             body == SumLoop_run(rest.total, f, Tail(ranges), Append(idxs, value))
         IN  IF rest.ub THEN rest
             ELSE Trace(rest.calls \o body.calls, body.total, body.ub)

\* for (auto i : range) of SumLoop::run, with the iterator at value.
SumLoop_for(total, f, value, ranges, idxs) ==
    IF ~(value # Head(ranges).end) THEN Trace(<<>>, total, FALSE)
    ELSE LET body == SumLoop_run(total, f, Tail(ranges), Append(idxs, value)) IN
         IF body.ub THEN body
         ELSE IF value = IntMax THEN Trace(body.calls, body.total, TRUE)
         ELSE LET rest == SumLoop_for(body.total, f, value + 1, ranges, idxs)
              IN  Trace(body.calls \o rest.calls, rest.total, rest.ub)

\* SumLoop<F, Range, Rest...>::run and the base case SumLoop<F>::run.
SumLoop_run(total, f, ranges, idxs) ==
    IF ranges = <<>> THEN Trace(<<idxs>>, PlusExpr(total, toExpr(Apply(f, idxs))), FALSE)
    ELSE SumLoop_for(total, f, Head(ranges).start, ranges, idxs)

\* sum(f, ranges...).
sum(f, ranges) == SumLoop_run(ZeroExpr, f, ranges, <<>>)

\* ------------------------------------------------------------------ Comprehension

\* indexSet(n): the vector {0,...,n-1}; and the vector holding the elements
\* of a range, start first.
indexSet(n) == [i \in 1..n |-> i - 1]
VectorOf(r) == [i \in 1..(r.end - r.start) |-> r.start + i - 1]

RECURSIVE cartProdRec(_, _, _, _)
RECURSIVE cartProdRec_for(_, _, _, _, _)

\* The loop of cartProdRec filling the tuple from its last position: the
\* set at depth is written to cur[size - 1 - depth].
cartProdRec_for_LastFirst(sets, depth, cur, out, k) ==
    IF k > Len(sets[Len(sets) - depth]) THEN out
    ELSE LET next == [cur EXCEPT ![Len(sets) - depth] = sets[Len(sets) - depth][k]]
         IN  cartProdRec_for(sets, depth, next,
                 cartProdRec(sets, depth + 1, next, out), k + 1)

\* for (int v : sets[depth]) of cartProdRec, at the k-th element of the set:
\* cur[depth] = v, then the recursion one level down.
cartProdRec_for(sets, depth, cur, out, k) ==
    IF k > Len(sets[depth + 1]) THEN out
    ELSE LET next == [cur EXCEPT ![depth + 1] = sets[depth + 1][k]]
         IN  cartProdRec_for(sets, depth, next,
                 cartProdRec(sets, depth + 1, next, out), k + 1)

\* cartProdRec(sets, depth, cur, out): out with the tuples below cur added.
cartProdRec(sets, depth, cur, out) ==
    IF depth = Len(sets) THEN Append(out, cur)
    ELSE cartProdRec_for(sets, depth, cur, out, 1)

\* cartesianProduct(sets): no tuple at all for an empty list of sets.
cartesianProduct(sets) ==
    IF sets = <<>> THEN <<>>
    ELSE cartProdRec(sets, 0, [i \in 1..Len(sets) |-> 0], <<>>)

\* What a comprehension returned: the tuples f was called with, in call
\* order, the vector built (comp, compND), the total (sumOver), and the
\* exception that ended it ("none" when it returned).
Comprehended(calls, out, total, err) ==
    [calls |-> calls, out |-> out, total |-> total, err |-> err]

\* compND(sets, f): f over the tuples of cartesianProduct(sets), flattened.
compND(sets, f) ==
    LET tuples == cartesianProduct(sets)
    IN  Comprehended(tuples, [p \in 1..Len(tuples) |-> Apply(f, tuples[p])],
                     ZeroExpr, "none")

RECURSIVE sumOver_for(_, _, _)
\* The loop of sumOver(sets, f): total += toExpr(f(t...)) for each tuple.
sumOver_for(total, f, tuples) ==
    IF tuples = <<>> THEN total
    ELSE sumOver_for(PlusExpr(total, toExpr(Apply(f, Head(tuples)))), f, Tail(tuples))

\* sumOver(sets, f) over a list of sets.
sumOver(sets, f) ==
    LET tuples == cartesianProduct(sets)
    IN  Comprehended(tuples, <<>>, sumOver_for(ZeroExpr, f, tuples), "none")

RECURSIVE comp_for(_, _, _, _)
\* for (auto i : idx.set) out.push_back(f(prefix..., i)), the iterator at value.
comp_for(value, r, f, prefix) ==
    IF ~(value # r.end) THEN <<>>
    ELSE <<Apply(f, Append(prefix, value))>> \o comp_for(value + 1, r, f, prefix)

\* The tuples the loop of comp_for calls f with.
comp_calls(r, prefix) == [a \in 1..size(r) |-> Append(prefix, r.start + a - 1)]

\* comp(Index1D, f) that skips the first element of the set.
comp1_SkipsFirst(r, f) ==
    IF size(r) < 0 THEN Comprehended(<<>>, <<>>, ZeroExpr, "length_error")
    ELSE IF size(r) = 0 THEN Comprehended(<<>>, <<>>, ZeroExpr, "none")
    ELSE Comprehended(Tail(comp_calls(r, <<>>)), comp_for(r.start + 1, r, f, <<>>),
                      ZeroExpr, "none")

\* comp(Index1D{r}, f): out.reserve(r.size()) of a negative size asks for
\* more than max_size() and throws std::length_error.
comp1(r, f) ==
    IF size(r) < 0 THEN Comprehended(<<>>, <<>>, ZeroExpr, "length_error")
    ELSE Comprehended(comp_calls(r, <<>>), comp_for(r.start, r, f, <<>>), ZeroExpr, "none")

RECURSIVE comp2_for(_, _, _, _)
\* The outer loop of comp(Index2D, f), the iterator at value: one row for
\* each element of s1; row.reserve(s2.size()) throws as above.
comp2_for(value, s1, s2, f) ==
    IF ~(value # s1.end) THEN Comprehended(<<>>, <<>>, ZeroExpr, "none")
    ELSE IF size(s2) < 0 THEN Comprehended(<<>>, <<>>, ZeroExpr, "length_error")
    ELSE LET row == comp_for(s2.start, s2, f, <<value>>)
             rest == comp2_for(value + 1, s1, s2, f)
         IN  Comprehended(comp_calls(s2, <<value>>) \o rest.calls,
                          <<row>> \o rest.out, ZeroExpr, rest.err)

\* comp(Index2D{s1, s2}, f): a vector of rows.
comp2(s1, s2, f) ==
    IF size(s1) < 0 THEN Comprehended(<<>>, <<>>, ZeroExpr, "length_error")
    ELSE comp2_for(s1.start, s1, s2, f)

\* ------------------------------------------------------------------ VariableTable

\* std::array<VariableGroup, MAX> table: every slot default-constructed.
EmptyTable == [k \in Keys |-> DefaultGroup]

\* set that leaves a populated slot as it is.
set_KeepsPopulated(t, key, group) ==
    IF t[key] = DefaultGroup THEN [t EXCEPT ![key] = group] ELSE t

\* VariableTable::set(key, VariableGroup&& group).
set(t, key, group) == [t EXCEPT ![key] = group]

\* VariableTable::set(key, const GRBVar& var).
setVar(t, key, v) == [t EXCEPT ![key] = ScalarGroup(v)]

\* VariableTable::get(key).
get(t, key) == t[key]

\* VariableTable::var(key, idx...).
var(t, key, idx) ==
    IF Len(idx) = 0 THEN scalar(t[key])
    ELSE at(t[key], idx)

\* ------------------------------------------------------------------ constraints

\* GRBLinExpr built from a number, from a variable, scaled by a number
\* (operator*(double, GRBLinExpr)) and subtracted (operator-).
NumExpr(d) == [const |-> d, terms |-> <<>>]
VarExpr(v) == [const |-> 0, terms |-> <<[coef |-> 1, var |-> v]>>]
ScaleExpr(d, e) ==
    [const |-> d * e.const,
     terms |-> [t \in 1..Len(e.terms) |->
                   [coef |-> d * e.terms[t].coef, var |-> e.terms[t].var]]]
MinusExpr(a, b) == PlusExpr(a, ScaleExpr(-1, b))

\* GRBTempConstr: lhs <= rhs, lhs >= rhs, lhs == rhs.
TempConstr(lhs, sense, rhs) == [lhs |-> lhs, sense |-> sense, rhs |-> rhs]

\* GRBModel::addConstr(tempConstr, name): one more constraint in the model.
addConstr(cs, temp, name) ==
    Append(cs, [lhs |-> temp.lhs, sense |-> temp.sense, rhs |-> temp.rhs, name |-> name])

\* What a cardinality helper did: the constraints of the model as it left
\* them, and whether its sum overflowed an index (undefined behaviour).
Helped(cs, ub) == [constrs |-> cs, ub |-> ub]

RECURSIVE atMostOne_AddEach(_, _, _)
\* The constraints f(idx) <= 1 added one by one for the tuples of calls.
atMostOne_AddEach(cs, f, calls) ==
    IF calls = <<>> THEN cs
    ELSE atMostOne_AddEach(
             addConstr(cs, TempConstr(toExpr(Apply(f, Head(calls))), "<=", NumExpr(1)), ""),
             f, Tail(calls))

\* atMostOne that constrains every term on its own: one constraint a tuple.
atMostOne_PerTuple(cs, f, rs) ==
    LET t == sum(f, rs) IN Helped(atMostOne_AddEach(cs, f, t.calls), t.ub)

\* atMostOne(model, f, ranges...).
atMostOne(cs, f, rs) ==
    LET sumExpr == sum(f, rs)
    IN  Helped(addConstr(cs, TempConstr(sumExpr.total, "<=", NumExpr(1)), ""), sumExpr.ub)

\* exactlyOne(model, f, ranges...).
exactlyOne(cs, f, rs) ==
    LET sumExpr == sum(f, rs)
    IN  Helped(addConstr(cs, TempConstr(sumExpr.total, "=", NumExpr(1)), ""), sumExpr.ub)

\* conBigM_Le with the indicator the other way round: rhs + M * bin.
conBigM_Le_Inverted(cs, lhs, rhs, bin, M, name) ==
    addConstr(cs, TempConstr(lhs, "<=", PlusExpr(rhs, ScaleExpr(M, VarExpr(bin)))), name)

\* conBigM_Le(model, lhs, rhs, bin, M, name): lhs <= rhs + M * (1 - bin).
conBigM_Le(cs, lhs, rhs, bin, M, name) ==
    addConstr(cs,
        TempConstr(lhs, "<=",
            PlusExpr(rhs, ScaleExpr(M, MinusExpr(NumExpr(1), VarExpr(bin))))),
        name)

\* conBigM_Ge(model, lhs, rhs, bin, M, name): lhs >= rhs - M * (1 - bin).
conBigM_Ge(cs, lhs, rhs, bin, M, name) ==
    addConstr(cs,
        TempConstr(lhs, ">=",
            MinusExpr(rhs, ScaleExpr(M, MinusExpr(NumExpr(1), VarExpr(bin))))),
        name)

\* ------------------------------------------------------------------ ModelBuilder

\* The two builders: ModelBuilder and ModelBuilderGeneric.
Builders == {"ModelBuilder", "ModelBuilderGeneric"}

\* RunOptions: 0 in a numeric field asks for the solver default.
RunOptions(timeLimitSec, mipGap, threads, verbose, solutionLimit, nodeLimit) ==
    [timeLimitSec |-> timeLimitSec, mipGap |-> mipGap, threads |-> threads,
     verbose |-> verbose, solutionLimit |-> solutionLimit, nodeLimit |-> nodeLimit]

\* The parameters of a new GRBModel (0: the solver default is in force;
\* output is on by default), and after the builder's constructor, which
\* runs model.set(GRB_IntParam_OutputFlag, 0).
DefaultParams ==
    [TimeLimit |-> 0, MIPGap |-> 0, Threads |-> 0, SolutionLimit |-> 0,
     NodeLimit |-> 0, OutputFlag |-> 1]
ConstructedParams == [DefaultParams EXCEPT !.OutputFlag = 0]

\* SolveResult as solve() declares it.
SolveResult == [success |-> FALSE, status |-> "-1", errorMsg |-> ""]

\* Nothing thrown, and a thrown value: its kind ("GRBException",
\* "std::exception", or "other" for any other type), error code and message.
NoThrow == [kind |-> "none", code |-> "", what |-> ""]
Throw(kind, code, what) == [kind |-> kind, code |-> code, what |-> what]

\* The key the example model stores its variables under.
X == 0

\* createVariables() that builds only on a model still empty.
createVariables_OnlyOnce(debugNames, b) ==
    IF b.model # <<>> THEN b
    ELSE LET r == add(debugNames, b.model, 0, "B", 0, 1, "X", <<MaxSize>>)
         IN  [b EXCEPT !.model = r.model, !.table = set(b.table, X, r.group)]

\* createVariables() of the example model:
\* vars.set(Vars::X, VariableFactory::add(model, GRB_BINARY, 0, 1, "X", n)).
createVariables(debugNames, b) ==
    LET r == add(debugNames, b.model, 0, "B", 0, 1, "X", <<MaxSize>>)
    IN  [b EXCEPT !.model = r.model, !.table = set(b.table, X, r.group)]

RECURSIVE SumOfX(_, _)
\* The sum of vars.var(Vars::X, i) for i below n.
SumOfX(t, n) ==
    IF n = 0 THEN ZeroExpr
    ELSE PlusExpr(SumOfX(t, n - 1), toExpr([type |-> "var", var |-> var(t, X, <<n - 1>>).var]))

\* addConstraints() of the example model: exactly one X[i] is chosen.
addConstraints(b) ==
    [b EXCEPT !.constrs =
        addConstr(b.constrs, TempConstr(SumOfX(b.table, MaxSize), "=", NumExpr(1)), "")]

\* setObjective() of the example model: minimise the sum of X.
setObjective(b) == [b EXCEPT !.objective = SumOfX(b.table, MaxSize)]

\* configureModel(): empty unless overridden.
configureModel(b) == b

\* The option settings of solve(): a numeric option is set only when it is
\* positive.  ModelBuilder also knows solutionLimit and nodeLimit and sets
\* the output flag from verbose either way; ModelBuilderGeneric only
\* switches the output off.
setOptions(kind, params, opts) ==
    LET p1 == IF opts.timeLimitSec > 0
              THEN [params EXCEPT !.TimeLimit = opts.timeLimitSec] ELSE params
        p2 == IF opts.mipGap > 0 THEN [p1 EXCEPT !.MIPGap = opts.mipGap] ELSE p1
        p3 == IF opts.threads > 0 THEN [p2 EXCEPT !.Threads = opts.threads] ELSE p2
        p4 == IF kind = "ModelBuilder" /\ opts.solutionLimit > 0
              THEN [p3 EXCEPT !.SolutionLimit = opts.solutionLimit] ELSE p3
        p5 == IF kind = "ModelBuilder" /\ opts.nodeLimit > 0
              THEN [p4 EXCEPT !.NodeLimit = opts.nodeLimit] ELSE p4
    IN  IF kind = "ModelBuilder"
        THEN [p5 EXCEPT !.OutputFlag = IF opts.verbose THEN 1 ELSE 0]
        ELSE IF ~opts.verbose THEN [p5 EXCEPT !.OutputFlag = 0] ELSE p5

\* The statements of the try block of solve(), in program order.
\* ModelBuilder reads the node count after the status.
TrySteps(kind) ==
    <<"createVariables", "addConstraints", "setObjective", "configureModel",
      "update", "setOptions", "optimize", "getStatus">>
    \o (IF kind = "ModelBuilder" THEN <<"getNodeCount">> ELSE <<>>)

\* What one statement of the try block does to the builder when it returns.
\* optimize runs under the parameters then in force; the status read after
\* it is the outcome of the optimization.
StepEffect(debugNames, kind, b, opts, outcome, step) ==
    CASE step = "createVariables" -> createVariables(debugNames, b)
      [] step = "addConstraints" -> addConstraints(b)
      [] step = "setObjective" -> setObjective(b)
      [] step = "configureModel" -> configureModel(b)
      [] step = "setOptions" -> [b EXCEPT !.params = setOptions(kind, b.params, opts)]
      [] step = "optimize" -> [b EXCEPT !.inForce = b.params, !.optimized = TRUE]
      [] step = "getStatus" -> [b EXCEPT !.status = outcome]
      [] OTHER -> b

RECURSIVE solve_try(_, _, _, _, _, _, _)
\* The try block with a handler around each statement: a statement that
\* throws is skipped and the next one runs.
solve_try_ContinuesAfterThrow(debugNames, kind, b, opts, fault, outcome, steps) ==
    IF steps = <<>> THEN [b |-> b, thrown |-> NoThrow]
    ELSE LET called == [b EXCEPT !.calls = Append(@, Head(steps))] IN
         IF fault.step = Head(steps)
         THEN [b |-> solve_try(debugNames, kind, called, opts, fault, outcome,
                               Tail(steps)).b,
               thrown |-> fault.thrown]
         ELSE solve_try(debugNames, kind,
                  StepEffect(debugNames, kind, called, opts, outcome, Head(steps)),
                  opts, fault, outcome, Tail(steps))

\* The try block from the statements in steps on: a statement that throws
\* was called and ends the block; fault names the statement that throws in
\* this call and what it throws.
solve_try(debugNames, kind, b, opts, fault, outcome, steps) ==
    IF steps = <<>> THEN [b |-> b, thrown |-> NoThrow]
    ELSE LET called == [b EXCEPT !.calls = Append(@, Head(steps))] IN
         IF fault.step = Head(steps) THEN [b |-> called, thrown |-> fault.thrown]
         ELSE solve_try(debugNames, kind,
                  StepEffect(debugNames, kind, called, opts, outcome, Head(steps)),
                  opts, fault, outcome, Tail(steps))

\* The handlers of solve() without the catch (...) clause: a thrown value
\* that is neither a GRBException nor a std::exception leaves solve().
solve_catch_NoCatchAll(thrown, status) ==
    CASE thrown.kind = "none" ->
            [result |-> [success |-> TRUE, status |-> status, errorMsg |-> ""],
             escaped |-> "none"]
      [] thrown.kind = "GRBException" ->
            [result |-> [success |-> FALSE, status |-> status,
                         errorMsg |-> "Gurobi Error " \o thrown.code \o ": " \o thrown.what],
             escaped |-> "none"]
      [] thrown.kind = "std::exception" ->
            [result |-> [success |-> FALSE, status |-> status,
                         errorMsg |-> "Exception: " \o thrown.what],
             escaped |-> "none"]
      [] OTHER -> [result |-> SolveResult, escaped |-> thrown.kind]

\* The end of the try block (result.success = true) and the three handlers:
\* catch (GRBException&), catch (std::exception&), catch (...).
solve_catch(thrown, status) ==
    CASE thrown.kind = "none" ->
            [result |-> [success |-> TRUE, status |-> status, errorMsg |-> ""],
             escaped |-> "none"]
      [] thrown.kind = "GRBException" ->
            [result |-> [success |-> FALSE, status |-> status,
                         errorMsg |-> "Gurobi Error " \o thrown.code \o ": " \o thrown.what],
             escaped |-> "none"]
      [] thrown.kind = "std::exception" ->
            [result |-> [success |-> FALSE, status |-> status,
                         errorMsg |-> "Exception: " \o thrown.what],
             escaped |-> "none"]
      [] OTHER ->
            [result |-> [success |-> FALSE, status |-> status,
                         errorMsg |-> "Unknown exception during solve()"],
             escaped |-> "none"]

\* solve(opts) on a builder b: the builder as the call leaves it, what the
\* try block threw, the result returned and what left solve() uncaught.
solve(debugNames, kind, b, opts, fault, outcome) ==
    LET start == [b EXCEPT !.calls = <<>>, !.status = SolveResult.status,
                           !.optimized = FALSE]
        t == solve_try(debugNames, kind, start, opts, fault, outcome, TrySteps(kind))
        c == solve_catch(t.thrown, t.b.status)
    IN  [b |-> t.b, thrown |-> t.thrown, result |-> c.result, escaped |-> c.escaped]

\* ------------------------------------------------------------------ state

VARIABLES
    DEBUG_NAMES,  \* the build-time naming flag
    model,        \* the GRBModel: the variables added so far
    built,        \* what the caller's last factory call gave it
    table,        \* the VariableTable
    wasSet,       \* history: the keys set() was called for
    last,         \* the last access made and what it returned
    ranges,       \* the ranges the caller traverses
    lambda,       \* the lambda the caller hands to sum
    fe,           \* what the caller's last forEach did
    sm,           \* what the caller's last sum did
    newest,       \* history: per key, the group last passed to set()
    replaced,     \* history: the handles of the groups set() overwrote
    constrs,      \* the GRBModel: the constraints added so far
    mb,           \* the ModelBuilder: its model's parameters and last solve
    cp,           \* what the caller's last comprehension returned
    nm,           \* the caller's last naming call and the string it returned
    rv            \* the caller's RangeView, its iterator and its traversals

groupVars == <<DEBUG_NAMES, model, built, table, wasSet, last>>
iterVars == <<ranges, lambda, fe, sm>>
histVars == <<newest, replaced>>
builderVars == <<constrs, mb>>
compVars == <<cp, nm, rv>>
vars == <<DEBUG_NAMES, model, built, table, wasSet, last, ranges, lambda, fe, sm,
          newest, replaced, constrs, mb, cp, nm, rv>>

RECURSIVE LeafVars(_, _)
RECURSIVE LeafVarsOf(_, _, _)
\* The handles held at depth k below a node, children taken in order.
LeafVarsOf(n, k, c) ==
    IF c > Len(n.children) THEN <<>>
    ELSE LeafVars(n.children[c], k - 1) \o LeafVarsOf(n, k, c + 1)
LeafVars(n, k) == IF k = 0 THEN <<n.scalar>> ELSE LeafVarsOf(n, k, 1)

NoDuplicates(q) == \A a, b \in 1..Len(q) : a # b => q[a] # q[b]
RangeOf(q) == {q[a] : a \in 1..Len(q)}

\* The registered handles a group holds (a placeholder GRBVar() is none).
Handles(g) == RangeOf(LeafVars(g.root, g.dims)) \ {NullVar}

NoDecl == [vtype |-> "", lb |-> 0, ub |-> 0, baseName |-> ""]
NoBuilt ==
    [state |-> "none", attached |-> FALSE, sizes |-> <<>>, decl |-> NoDecl,
     before |-> 0, fault |-> 0, err |-> "none", kind |-> "none", var |-> NullVar,
     group |-> DefaultGroup]
NoResult == Thrown("none", 0)
NoLast == [op |-> "none", key |-> 0, idx |-> <<>>, res |-> NoResult, visits |-> <<>>]
\* A builder after its constructor: nothing solved yet.
Constructed(kind) ==
    [kind |-> kind, params |-> ConstructedParams, objective |-> ZeroExpr,
     solves |-> 0, succeeded |-> 0, opts |-> RunOptions(0, 0, 0, TRUE, 0, 0), calls |-> <<>>,
     inForce |-> ConstructedParams, optimized |-> FALSE, thrown |-> NoThrow,
     threwAt |-> "none", result |-> SolveResult, escaped |-> "none"]
NewBuilder == Constructed("ModelBuilder")
NoComp == [op |-> "none", calls |-> <<>>, out |-> <<>>, total |-> ZeroExpr, err |-> "none"]
Comp(op, c) == [op |-> op, calls |-> c.calls, out |-> c.out, total |-> c.total, err |-> c.err]
\* No naming call made yet.
NoName == [op |-> "none", flag |-> FALSE, base |-> "", args |-> <<>>, res |-> ""]
\* No RangeView constructed yet.
NoView ==
    [made |-> FALSE, by |-> "none", arg |-> <<>>, r |-> RangeView(0, 0),
     sized |-> FALSE, size |-> 0, iterating |-> FALSE, it |-> Iterator(0),
     out |-> <<>>, ub |-> FALSE, runs |-> <<>>]
\* A RangeView right after its construction.
View(by, arg, r) == [NoView EXCEPT !.made = TRUE, !.by = by, !.arg = arg, !.r = r]
NoRun == [done |-> FALSE, calls |-> <<>>, total |-> ZeroExpr, ub |-> FALSE]
Ran(t) == [done |-> TRUE, calls |-> t.calls, total |-> t.total, ub |-> t.ub]

\* The ranges a caller builds: range(start, end) for any two ints.
Ranges == {range(s, e) : s \in 0..MaxEnd, e \in 0..MaxEnd}
RangeLists == TuplesUpTo(Ranges, MaxRanges)

Init ==
    /\ DEBUG_NAMES \in BOOLEAN
    /\ model = <<>>
    /\ built = NoBuilt
    /\ table = EmptyTable
    /\ wasSet = [k \in Keys |-> FALSE]
    /\ last = NoLast
    /\ ranges = <<>>
    /\ lambda = "int"
    /\ fe = NoRun
    /\ sm = NoRun
    /\ newest = [k \in Keys |-> DefaultGroup]
    /\ replaced = {}
    /\ constrs = <<>>
    /\ mb = NewBuilder
    /\ cp = NoComp
    /\ nm = NoName
    /\ rv = NoView

\* The caller runs VariableFactory::add(model, d.vtype, d.lb, d.ub, d.baseName, sizes...).
\* fault is what the solver does in this call: its fault-th addVar throws
\* (0: none does).
Add(d, sizes, fault) ==
    LET refuse == IF fault = 0 THEN 0 ELSE Len(model) + fault
        r == add(DEBUG_NAMES, model, refuse, d.vtype, d.lb, d.ub, d.baseName, sizes)
    IN
    /\ model' = r.model
    /\ built' = [state |-> IF r.err = "none" THEN "fresh" ELSE "failed",
                 attached |-> TRUE, sizes |-> sizes, decl |-> d,
                 before |-> Len(model), fault |-> fault, err |-> r.err,
                 kind |-> r.kind, var |-> r.var, group |-> r.group]
    /\ last' = NoLast
    /\ UNCHANGED <<DEBUG_NAMES, table, wasSet>>
    /\ UNCHANGED iterVars
    /\ UNCHANGED <<histVars, builderVars, compVars>>

\* The caller runs VariableFactory::create(sizes...).
Create(sizes) ==
    LET r == create(sizes) IN
    /\ built' = [state |-> IF r.err = "none" THEN "fresh" ELSE "failed",
                 attached |-> FALSE, sizes |-> sizes, decl |-> NoDecl,
                 before |-> Len(model), fault |-> 0, err |-> r.err,
                 kind |-> r.kind, var |-> r.var, group |-> r.group]
    /\ last' = NoLast
    /\ UNCHANGED <<DEBUG_NAMES, model, table, wasSet>>
    /\ UNCHANGED iterVars
    /\ UNCHANGED <<histVars, builderVars, compVars>>

\* The caller wraps the GRBVar it was given: VariableGroup(v).
WrapScalar ==
    /\ built.state = "fresh"
    /\ built.kind = "var"
    /\ built' = [built EXCEPT !.kind = "group", !.group = ScalarGroup(built.var)]
    /\ last' = NoLast
    /\ UNCHANGED <<DEBUG_NAMES, model, table, wasSet>>
    /\ UNCHANGED iterVars
    /\ UNCHANGED <<histVars, builderVars, compVars>>

\* The caller runs group.at(idx...) on the group it was given.
At(idx) ==
    /\ built.state = "fresh"
    /\ built.kind = "group"
    /\ last' = [op |-> "at", key |-> 0, idx |-> idx, res |-> at(built.group, idx), visits |-> <<>>]
    /\ UNCHANGED <<DEBUG_NAMES, model, built, table, wasSet>>
    /\ UNCHANGED iterVars
    /\ UNCHANGED <<histVars, builderVars, compVars>>

\* The caller runs group.scalar() on the group it was given.
Scalar ==
    /\ built.state = "fresh"
    /\ built.kind = "group"
    /\ last' = [op |-> "scalar", key |-> 0, idx |-> <<>>, res |-> scalar(built.group), visits |-> <<>>]
    /\ UNCHANGED <<DEBUG_NAMES, model, built, table, wasSet>>
    /\ UNCHANGED iterVars
    /\ UNCHANGED <<histVars, builderVars, compVars>>

\* table.set that removes the variables of the group it overwrites from the
\* model, and every variable added after them.
TableSet_Deregisters(key) ==
    /\ built.state = "fresh"
    /\ table' = IF built.kind = "group" THEN set(table, key, built.group)
                ELSE setVar(table, key, built.var)
    /\ model' = IF Handles(table[key]) = {} THEN model
                ELSE SubSeq(model, 1, (CHOOSE h \in Handles(table[key]) :
                                          \A g \in Handles(table[key]) : h <= g) - 1)
    /\ wasSet' = [wasSet EXCEPT ![key] = TRUE]
    /\ newest' = [newest EXCEPT ![key] = IF built.kind = "group" THEN built.group
                                         ELSE ScalarGroup(built.var)]
    /\ replaced' = replaced \cup Handles(table[key])
    /\ built' = NoBuilt
    /\ last' = NoLast
    /\ UNCHANGED DEBUG_NAMES
    /\ UNCHANGED iterVars
    /\ UNCHANGED <<builderVars, compVars>>

\* The caller runs table.set(key, <the value the factory returned>): the
\* group is moved into the slot; a GRBVar goes through the GRBVar overload.
TableSet(key) ==
    /\ built.state = "fresh"
    /\ table' = IF built.kind = "group" THEN set(table, key, built.group)
                ELSE setVar(table, key, built.var)
    /\ wasSet' = [wasSet EXCEPT ![key] = TRUE]
    /\ newest' = [newest EXCEPT ![key] = IF built.kind = "group" THEN built.group
                                         ELSE ScalarGroup(built.var)]
    /\ replaced' = replaced \cup Handles(table[key])
    /\ built' = NoBuilt
    /\ last' = NoLast
    /\ UNCHANGED <<DEBUG_NAMES, model>>
    /\ UNCHANGED iterVars
    /\ UNCHANGED <<builderVars, compVars>>

\* The group the caller holds goes out of scope: ~VariableGroup() frees the
\* tree of handles and makes no call on the model.
Destroy ==
    /\ built.state = "fresh"
    /\ built' = NoBuilt
    /\ last' = NoLast
    /\ UNCHANGED <<DEBUG_NAMES, model, table, wasSet>>
    /\ UNCHANGED iterVars
    /\ UNCHANGED <<histVars, builderVars, compVars>>

\* The caller runs table.var(key, idx...).
TableVar(key, idx) ==
    /\ last' = [op |-> "var", key |-> key, idx |-> idx, res |-> var(table, key, idx), visits |-> <<>>]
    /\ UNCHANGED <<DEBUG_NAMES, model, built, table, wasSet>>
    /\ UNCHANGED iterVars
    /\ UNCHANGED <<histVars, builderVars, compVars>>

RECURSIVE UntilThrow(_)
\* The results up to the first one that threw: the exception leaves the loop.
UntilThrow(results) ==
    IF results = <<>> THEN <<>>
    ELSE IF Head(results).status # "ok" THEN <<Head(results)>>
    ELSE <<Head(results)>> \o UntilThrow(Tail(results))

\* The caller runs forEach([&](auto... i) { group.at(i...); }, indices(d1), ...,
\* indices(dk)) over the sizes it built the group with.
ForEachAt ==
    /\ built.state = "fresh"
    /\ built.kind = "group"
    /\ LET t == forEach([k \in 1..Len(built.sizes) |-> indices(built.sizes[k])])
           results == [p \in 1..Len(t.calls) |-> at(built.group, t.calls[p])]
       IN  last' = [op |-> "forEachAt", key |-> 0, idx |-> <<>>, res |-> NoResult,
                    visits |-> UntilThrow(results)]
    /\ UNCHANGED <<DEBUG_NAMES, model, built, table, wasSet>>
    /\ UNCHANGED iterVars
    /\ UNCHANGED <<histVars, builderVars, compVars>>

\* The caller runs forEach(f, ranges...) with an f that records its arguments.
ForEach ==
    /\ fe' = Ran(forEach(ranges))
    /\ UNCHANGED <<ranges, lambda, sm>>
    /\ UNCHANGED groupVars
    /\ UNCHANGED <<histVars, builderVars, compVars>>

\* The caller runs sum(lambda, ranges...).
Sum ==
    /\ sm' = Ran(sum(lambda, ranges))
    /\ UNCHANGED <<ranges, lambda, fe>>
    /\ UNCHANGED groupVars
    /\ UNCHANGED <<histVars, builderVars, compVars>>

\* One factory call on a new model, then an access to what it built.  An
\* access changes nothing but last, so a run's first access already reaches
\* every state a later one would.
Next ==
    \/ \E d \in Decls, sizes \in Shapes : built.state = "none" /\ Add(d, sizes, 0)
    \/ \E sizes \in Shapes : built.state = "none" /\ Create(sizes)
    \/ WrapScalar
    \/ \E idx \in IndexTuples : last = NoLast /\ At(idx)
    \/ last = NoLast /\ Scalar
    \/ last = NoLast /\ ForEachAt

Spec == Init /\ [][Next]_vars

\* Factory calls whose results are stored in the table, and a table lookup
\* after any of them.
TableNext ==
    \/ \E d \in Decls, sizes \in TableShapes :
          built.state = "none" /\ Len(model) + Product(sizes) <= MaxVars /\ Add(d, sizes, 0)
    \/ \E key \in Keys : TableSet(key)
    \/ Destroy
    \/ \E key \in Keys, idx \in TableIndexTuples : last = NoLast /\ TableVar(key, idx)

TableSpec == Init /\ [][TableNext]_vars

\* Factory calls in which the solver may fail, each written as
\* table.set(key, VariableFactory::add(...)): set runs only when add returned.
FaultNext ==
    \/ \E d \in Decls, sizes \in TableShapes, fault \in 0..MaxVars :
          /\ built.state \in {"none", "failed"}
          /\ Len(model) + Product(sizes) <= MaxVars
          /\ Add(d, sizes, fault)
    \/ \E key \in Keys : TableSet(key)

FaultSpec == Init /\ [][FaultNext]_vars

\* Traversals of ranges the caller chose, by forEach and by sum.
IterInit ==
    /\ DEBUG_NAMES = FALSE
    /\ model = <<>>
    /\ built = NoBuilt
    /\ table = EmptyTable
    /\ wasSet = [k \in Keys |-> FALSE]
    /\ last = NoLast
    /\ ranges \in RangeLists
    /\ lambda \in Lambdas
    /\ fe = NoRun
    /\ sm = NoRun
    /\ newest = [k \in Keys |-> DefaultGroup]
    /\ replaced = {}
    /\ constrs = <<>>
    /\ mb = NewBuilder
    /\ cp = NoComp
    /\ nm = NoName
    /\ rv = NoView

IterNext ==
    \/ ForEach
    \/ Sum

IterSpec == IterInit /\ [][IterNext]_vars

\* The caller runs atMostOne(model, lambda, ranges...).  When the sum runs
\* an index past INT_MAX the call is undefined: it may end before or after
\* its constraint is added.
AtMostOne ==
    /\ LET r == atMostOne(constrs, lambda, ranges)
       IN  constrs' \in (IF r.ub THEN {constrs, r.constrs} ELSE {r.constrs})
    /\ UNCHANGED <<groupVars, iterVars, histVars, mb, compVars>>

\* The caller runs exactlyOne(model, lambda, ranges...).
ExactlyOne ==
    /\ LET r == exactlyOne(constrs, lambda, ranges)
       IN  constrs' \in (IF r.ub THEN {constrs, r.constrs} ELSE {r.constrs})
    /\ UNCHANGED <<groupVars, iterVars, histVars, mb, compVars>>

\* The caller runs conBigM_Le(model, lhs, rhs, bin, M, name).
ConBigM_Le(lhs, rhs, bin, M, name) ==
    /\ constrs' = conBigM_Le(constrs, lhs, rhs, bin, M, name)
    /\ UNCHANGED <<groupVars, iterVars, histVars, mb, compVars>>

\* The caller runs conBigM_Ge(model, lhs, rhs, bin, M, name).
ConBigM_Ge(lhs, rhs, bin, M, name) ==
    /\ constrs' = conBigM_Ge(constrs, lhs, rhs, bin, M, name)
    /\ UNCHANGED <<groupVars, iterVars, histVars, mb, compVars>>

\* A model holding the variables x[0..MaxEnd] the lambdas refer to.
ModelWithX == add(FALSE, <<>>, 0, "B", 0, 1, "x", <<MaxEnd + 1>>).model

\* Cardinality helpers over ranges and a lambda the caller chose.
ConstrInit ==
    /\ DEBUG_NAMES = FALSE
    /\ model = ModelWithX
    /\ built = NoBuilt
    /\ table = EmptyTable
    /\ wasSet = [k \in Keys |-> FALSE]
    /\ last = NoLast
    /\ ranges \in RangeLists
    /\ lambda \in Lambdas
    /\ fe = NoRun
    /\ sm = NoRun
    /\ newest = [k \in Keys |-> DefaultGroup]
    /\ replaced = {}
    /\ constrs = <<>>
    /\ mb = NewBuilder
    /\ cp = NoComp
    /\ nm = NoName
    /\ rv = NoView

ConstrNext ==
    \/ Len(constrs) < MaxConstrs /\ AtMostOne
    \/ Len(constrs) < MaxConstrs /\ ExactlyOne

ConstrSpec == ConstrInit /\ [][ConstrNext]_vars

\* The arguments a caller gives the big-M helpers: expressions over x, the
\* binary x[MaxEnd], and an M of either sign or zero.
BigMLhs == {VarExpr(1), PlusExpr(NumExpr(3), ScaleExpr(2, VarExpr(2)))}
BigMRhs == {NumExpr(4), VarExpr(2)}
BigMs == {-1, 0, 5}
BigMNames == {"link"}

BigMInit ==
    /\ DEBUG_NAMES = FALSE
    /\ model = ModelWithX
    /\ built = NoBuilt
    /\ table = EmptyTable
    /\ wasSet = [k \in Keys |-> FALSE]
    /\ last = NoLast
    /\ ranges = <<>>
    /\ lambda = "int"
    /\ fe = NoRun
    /\ sm = NoRun
    /\ newest = [k \in Keys |-> DefaultGroup]
    /\ replaced = {}
    /\ constrs = <<>>
    /\ mb = NewBuilder
    /\ cp = NoComp
    /\ nm = NoName
    /\ rv = NoView

BigMNext ==
    \/ \E lhs \in BigMLhs, rhs \in BigMRhs, M \in BigMs, name \in BigMNames :
          Len(constrs) < MaxConstrs /\ ConBigM_Le(lhs, rhs, Len(model), M, name)
    \/ \E lhs \in BigMLhs, rhs \in BigMRhs, M \in BigMs, name \in BigMNames :
          Len(constrs) < MaxConstrs /\ ConBigM_Ge(lhs, rhs, Len(model), M, name)

BigMSpec == BigMInit /\ [][BigMNext]_vars

\* The caller runs builder.solve(opts).  fault and outcome are what the
\* hooks and the solver do in this call: which statement throws, if any, and
\* the status the optimization ends with.
Solve(opts, fault, outcome) ==
    LET b == [model |-> model, constrs |-> constrs, table |-> table,
              params |-> mb.params, objective |-> mb.objective, calls |-> <<>>,
              inForce |-> mb.inForce, optimized |-> FALSE, status |-> SolveResult.status]
    IN  \E r \in {solve(DEBUG_NAMES, mb.kind, b, opts, fault, outcome)} :
        LET created == r.b.model # model IN
        /\ model' = r.b.model
        /\ constrs' = r.b.constrs
        /\ table' = r.b.table
        /\ wasSet' = IF created THEN [wasSet EXCEPT ![X] = TRUE] ELSE wasSet
        /\ newest' = IF created THEN [newest EXCEPT ![X] = r.b.table[X]] ELSE newest
        /\ replaced' = IF created THEN replaced \cup Handles(table[X]) ELSE replaced
        /\ mb' = [kind |-> mb.kind, params |-> r.b.params, objective |-> r.b.objective,
                  solves |-> mb.solves + 1,
                  succeeded |-> mb.succeeded + (IF r.result.success THEN 1 ELSE 0),
                  opts |-> opts, calls |-> r.b.calls,
                  inForce |-> r.b.inForce, optimized |-> r.b.optimized,
                  thrown |-> r.thrown,
                  threwAt |-> IF r.thrown.kind = "none" THEN "none" ELSE fault.step,
                  result |-> r.result, escaped |-> r.escaped]
        /\ UNCHANGED <<DEBUG_NAMES, built, last>>
        /\ UNCHANGED <<iterVars, compVars>>

\* The options a caller passes: the defaults, quiet, and every limit set.
Options ==
    {RunOptions(0, 0, 0, TRUE, 0, 0), RunOptions(0, 0, 0, FALSE, 0, 0),
     RunOptions(5, 1, 2, TRUE, 3, 4), RunOptions(5, 0, 0, FALSE, 0, 0)}

\* What can go wrong in one call: a hook throws a solver error, a standard
\* exception (with or without a message) or a value of another type; a call
\* on the solver throws a solver error.
Hooks == {"createVariables", "addConstraints", "setObjective", "configureModel"}
SolverCalls == {"update", "setOptions", "optimize", "getStatus", "getNodeCount"}
HookThrows ==
    {Throw("GRBException", "10003", ""),
     Throw("std::exception", "", "VariableGroup::at(): wrong number of indices"),
     Throw("std::exception", "", ""),
     Throw("other", "", "")}
Faults ==
    {[step |-> "none", thrown |-> NoThrow]}
    \cup {[step |-> h, thrown |-> t] : h \in Hooks, t \in HookThrows}
    \cup {[step |-> c, thrown |-> Throw("GRBException", "10003", "")] : c \in SolverCalls}

\* The status an optimization ends with.
Outcomes == {"GRB_OPTIMAL", "GRB_INFEASIBLE"}

\* A builder of either kind, and solve() called on it.
SolveInit ==
    /\ DEBUG_NAMES = FALSE
    /\ model = <<>>
    /\ built = NoBuilt
    /\ table = EmptyTable
    /\ wasSet = [k \in Keys |-> FALSE]
    /\ last = NoLast
    /\ ranges = <<>>
    /\ lambda = "int"
    /\ fe = NoRun
    /\ sm = NoRun
    /\ newest = [k \in Keys |-> DefaultGroup]
    /\ replaced = {}
    /\ constrs = <<>>
    /\ mb \in {Constructed(kind) : kind \in Builders}
    /\ cp = NoComp
    /\ nm = NoName
    /\ rv = NoView

SolveNext ==
    \E opts \in Options, fault \in Faults, outcome \in Outcomes :
        mb.solves < MaxSolves /\ Solve(opts, fault, outcome)

SolveSpec == SolveInit /\ [][SolveNext]_vars

\* The caller runs compND(sets, lambda) on the vectors of its ranges.
CompND ==
    /\ WellFormed(ranges)
    /\ cp' = Comp("compND", compND([j \in 1..Len(ranges) |-> VectorOf(ranges[j])], lambda))
    /\ UNCHANGED <<groupVars, iterVars, histVars, builderVars, nm, rv>>

\* The caller runs sumOver(sets, lambda) on the vectors of its ranges.
SumOverND ==
    /\ WellFormed(ranges)
    /\ cp' = Comp("sumOver", sumOver([j \in 1..Len(ranges) |-> VectorOf(ranges[j])], lambda))
    /\ UNCHANGED <<groupVars, iterVars, histVars, builderVars, nm, rv>>

\* The caller runs comp over its one range.
Comp1 ==
    /\ Len(ranges) = 1
    /\ cp' = Comp("comp1", comp1(ranges[1], lambda))
    /\ UNCHANGED <<groupVars, iterVars, histVars, builderVars, nm, rv>>

\* The caller runs comp over the product of its two ranges.
Comp2 ==
    /\ Len(ranges) = 2
    /\ cp' = Comp("comp2", comp2(ranges[1], ranges[2], lambda))
    /\ UNCHANGED <<groupVars, iterVars, histVars, builderVars, nm, rv>>

\* One comprehension over ranges and a lambda the caller chose.
CompNext ==
    \/ cp = NoComp /\ CompND
    \/ cp = NoComp /\ SumOverND
    \/ cp = NoComp /\ Comp1
    \/ cp = NoComp /\ Comp2

CompSpec == IterInit /\ [][CompNext]_vars

\* The base names, index lists and parts a caller names things with.
NameBases == {"x", "cost"}
NameIndices == TuplesUpTo(-1..MaxSize, MaxRank)
NameParts == {StrPart("x_"), StrPart(""), IntPart(1), IntPart(-1)}
NamePartLists == TuplesUpTo(NameParts, MaxRank)

\* The caller runs naming::nameND(base, idx...).
NameND(base, idx) ==
    /\ nm' = [op |-> "nameND", flag |-> DEBUG_NAMES, base |-> base, args |-> idx,
              res |-> nameND(DEBUG_NAMES, base, idx)]
    /\ UNCHANGED <<groupVars, iterVars, histVars, builderVars, cp, rv>>

\* The caller runs constraint::cnameND(base, idx...) in a build whose
\* DEBUG_CONSTRAINT_NAMES is flag.
CnameND(flag, base, idx) ==
    /\ nm' = [op |-> "cnameND", flag |-> flag, base |-> base, args |-> idx,
              res |-> cnameND(flag, base, idx)]
    /\ UNCHANGED <<groupVars, iterVars, histVars, builderVars, cp, rv>>

\* The caller runs naming::make_name(parts...).
MakeName(parts) ==
    /\ nm' = [op |-> "naming::make_name", flag |-> DEBUG_NAMES, base |-> "",
              args |-> parts, res |-> make_name(DEBUG_NAMES, parts)]
    /\ UNCHANGED <<groupVars, iterVars, histVars, builderVars, cp, rv>>

\* The caller runs dsl::make_name(parts...).
DslMakeName(parts) ==
    /\ nm' = [op |-> "dsl::make_name", flag |-> DEBUG_NAMES, base |-> "",
              args |-> parts, res |-> dsl_make_name(parts)]
    /\ UNCHANGED <<groupVars, iterVars, histVars, builderVars, cp, rv>>

\* Naming calls, one after the other, in a build with either flag value.
NameNext ==
    \/ \E base \in NameBases, idx \in NameIndices : NameND(base, idx)
    \/ \E flag \in BOOLEAN, base \in NameBases, idx \in NameIndices :
          CnameND(flag, base, idx)
    \/ \E parts \in NamePartLists : MakeName(parts)
    \/ \E parts \in NamePartLists : DslMakeName(parts)

NameSpec == Init /\ [][NameNext]_vars

\* The caller runs indices(n) for any int n.
Indices(n) ==
    /\ rv' = View("indices", <<n>>, indices(n))
    /\ UNCHANGED <<groupVars, iterVars, histVars, builderVars, cp, nm>>

\* The caller runs range(start, end) for any two ints.
Range(start, end) ==
    /\ rv' = View("range", <<start, end>>, range(start, end))
    /\ UNCHANGED <<groupVars, iterVars, histVars, builderVars, cp, nm>>

\* The caller asks its view for size().
Size ==
    /\ rv.made
    /\ rv' = [rv EXCEPT !.sized = TRUE, !.size = size(rv.r)]
    /\ UNCHANGED <<groupVars, iterVars, histVars, builderVars, cp, nm>>

\* for (auto i : view) starts: the loop takes begin().
Begin ==
    /\ rv.made
    /\ ~rv.iterating
    /\ ~rv.ub
    /\ Len(rv.runs) < MaxTraversals
    /\ rv' = [rv EXCEPT !.iterating = TRUE, !.it = RangeView_begin(rv.r), !.out = <<>>]
    /\ UNCHANGED <<groupVars, iterVars, histVars, builderVars, cp, nm>>

\* One round of the loop: it != end() is tested; if they differ the body
\* receives *it and ++it follows (undefined behaviour at INT_MAX), else the
\* loop is over.
Step ==
    /\ rv.iterating
    /\ rv' = IF Iterator_neq(rv.it, RangeView_end(rv.r))
             THEN IF Iterator_deref(rv.it) = IntMax
                  THEN [rv EXCEPT !.out = Append(@, Iterator_deref(rv.it)),
                                  !.ub = TRUE, !.iterating = FALSE]
                  ELSE [rv EXCEPT !.out = Append(@, Iterator_deref(rv.it)),
                                  !.it = Iterator_inc(@)]
             ELSE [rv EXCEPT !.iterating = FALSE, !.runs = Append(@, rv.out)]
    /\ UNCHANGED <<groupVars, iterVars, histVars, builderVars, cp, nm>>

\* One view, asked for its size and traversed again and again.
ViewNext ==
    \/ ~rv.made /\ \E n \in -1..MaxEnd : Indices(n)
    \/ ~rv.made /\ \E start \in 0..MaxEnd, end \in 0..MaxEnd : Range(start, end)
    \/ Size
    \/ Begin
    \/ Step

ViewSpec == Init /\ [][ViewNext]_vars

\* ------------------------------------------------------------------ properties

\* The index tuples inside a shape: 0 <= idx[j] < sizes[j] for every j.
InShape(idx, sizes) ==
    /\ Len(idx) = Len(sizes)
    /\ \A j \in 1..Len(idx) : 0 <= idx[j] /\ idx[j] < sizes[j]

AllInShape(sizes) == {idx \in TuplesOf(0..MaxSize, Len(sizes)) : InShape(idx, sizes)}

RECURSIVE NodeAt(_, _)
\* The node of a tree at a path that exists in it.
NodeAt(n, path) ==
    IF path = <<>> THEN n ELSE NodeAt(n.children[Head(path) + 1], Tail(path))

\* The handles the last attached factory call registered.
Registered == (built.before + 1)..Len(model)

Min(S) == CHOOSE x \in S : \A y \in S : x <= y

\* C1: on a freshly built group of shape (d1,...,dk), k >= 1, at(i1,...,ik)
\* returns the handle of the leaf at that index tuple iff 0 <= ij < dj for
\* every j, and fails for every other tuple of k indices.
C1_AtOkIffInShape ==
    (last.op = "at" /\ built.sizes # <<>> /\ Len(last.idx) = Len(built.sizes)) =>
        /\ (last.res.status = "ok") <=> InShape(last.idx, built.sizes)
        /\ last.res.status = "ok" =>
              /\ last.res.ref = last.idx
              /\ last.res.var = NodeAt(built.group.root, last.idx).scalar
              /\ built.attached => last.res.var \in Registered
        /\ last.res.status # "ok" => last.res.status = "IndexOutOfRange"

C1_Witness ==
    /\ last.op = "at"
    /\ built.attached
    /\ built.sizes = <<2, 2>>
    /\ last.idx = <<1, 0>>
    /\ last.res.status = "ok"
    /\ last.res.var = built.before + 3

\* C6: an attached create that returns, with sizes (d1,...,dk), k >= 1, has
\* called the Solver's variable creation exactly d1*...*dk times, once per
\* leaf of the tree, each time with the given type, lower and upper bound;
\* with zero sizes it has called it once and returns that one handle.
C6_OneSolverCallPerLeaf ==
    (built.attached /\ built.state = "fresh") =>
        /\ Len(model) - built.before = Product(built.sizes)
        /\ \A v \in Registered :
              /\ model[v].vtype = built.decl.vtype
              /\ model[v].lb = built.decl.lb
              /\ model[v].ub = built.decl.ub
        /\ built.sizes = <<>> => built.var = built.before + 1
        /\ built.sizes # <<>> =>
              LET leaves == LeafVars(built.group.root, Len(built.sizes)) IN
              /\ NoDuplicates(leaves)
              /\ RangeOf(leaves) = Registered

C6_Witness ==
    /\ built.attached
    /\ built.state = "fresh"
    /\ built.sizes = <<2, 2>>
    /\ built.decl.vtype = "C"
    /\ Len(model) = 4
    /\ model[4].lb = -1
    /\ model[4].ub = 5

RECURSIVE NestedName(_, _)
\* base followed by one bracketed index per level: base[i1][i2]...[ik].
NestedName(base, idx) ==
    IF idx = <<>> THEN base
    ELSE NestedName(base \o "[" \o ToString(Head(idx)) \o "]", Tail(idx))

\* The name the leaf at idx of the group built last was registered under.
LeafName(idx) == model[NodeAt(built.group.root, idx).scalar].name

\* C7 as stated: with naming enabled the leaf at (i1,...,ik) is registered
\* under nameND(baseName, (i1,...,ik)) = baseName[i1,...,ik], and with zero
\* sizes under baseName.
C7_LeafNamedByFullTuple ==
    (DEBUG_NAMES /\ built.attached /\ built.state = "fresh") =>
        /\ built.sizes = <<>> => model[built.var].name = built.decl.baseName
        /\ built.sizes # <<>> =>
              \A idx \in AllInShape(built.sizes) :
                  LeafName(idx) = nameND(TRUE, built.decl.baseName, idx)

\* C7 amended: with naming enabled the leaf at (i1,...,ik) is registered
\* under the name built by one nameND call per level, each on the name of
\* the level above: baseName[i1][i2]...[ik]; with zero sizes under baseName.
C7_LeafNamedPerLevel ==
    (DEBUG_NAMES /\ built.attached /\ built.state = "fresh") =>
        /\ built.sizes = <<>> => model[built.var].name = built.decl.baseName
        /\ built.sizes # <<>> =>
              \A idx \in AllInShape(built.sizes) :
                  LeafName(idx) = NestedName(built.decl.baseName, idx)

C7_Witness ==
    /\ DEBUG_NAMES
    /\ built.attached
    /\ built.state = "fresh"
    /\ built.sizes = <<2, 2>>
    /\ built.decl.baseName = "x"
    /\ LeafName(<<1, 0>>) = "x[1][0]"

\* C8: forEach over indices(d1),...,indices(dk) calling at(i1,...,ik) on a
\* group built with shape (d1,...,dk) completes without error and touches
\* exactly d1*...*dk leaves: distinct tuples reach distinct leaves, none is
\* repeated and none is skipped.
C8_ForEachTouchesEveryLeafOnce ==
    last.op = "forEachAt" =>
        LET refs == [p \in 1..Len(last.visits) |-> last.visits[p].ref]
            touched == [p \in 1..Len(last.visits) |-> last.visits[p].var]
        IN  /\ \A p \in 1..Len(last.visits) : last.visits[p].status = "ok"
            /\ Len(last.visits) = Product(built.sizes)
            /\ NoDuplicates(refs)
            /\ RangeOf(refs) = AllInShape(built.sizes)
            /\ built.attached =>
                  /\ NoDuplicates(touched)
                  /\ RangeOf(touched) = Registered

C8_Witness ==
    /\ last.op = "forEachAt"
    /\ built.attached
    /\ built.sizes = <<2, 2>>
    /\ Len(last.visits) = 4
    /\ last.visits[4].ref = <<1, 1>>
    /\ last.visits[4].var = built.before + 4

\* C9: at(i1,...,ik) fails with DimensionMismatch whenever k differs from
\* the group's dims, before any index is examined (a scalar group included);
\* when k equals dims it fails with IndexOutOfRange at the first level whose
\* index is outside that level's child count, without examining later ones.
C9_AtFailureOrder ==
    last.op = "at" =>
        LET k == Len(last.idx)
            outside == {j \in 1..k : ~(0 <= last.idx[j] /\ last.idx[j] < built.sizes[j])}
        IN  /\ k # built.group.dims =>
                  /\ last.res.status = "DimensionMismatch"
                  /\ last.res.examined = 0
            /\ (k = built.group.dims /\ outside # {}) =>
                  /\ last.res.status = "IndexOutOfRange"
                  /\ last.res.examined = Min(outside)

C9_Witness ==
    /\ last.op = "at"
    /\ built.sizes = <<2, 2>>
    /\ last.idx = <<1, 2>>
    /\ last.res.status = "IndexOutOfRange"
    /\ last.res.examined = 2

\* C10 as stated: for a key whose slot was never set, var(key, idx...) fails
\* with DimensionMismatch or NotScalar for every index tuple, the empty one
\* included: reading an unset slot never returns a handle.
C10_UnsetSlotNeverReturns ==
    (last.op = "var" /\ ~wasSet[last.key]) =>
        last.res.status \in {"DimensionMismatch", "NotScalar"}

\* ------------------------------------------------------------------ traversals

\* The cartesian product R1 x ... x Rn as a set of tuples.
CartesianProduct(rs) ==
    {t \in TuplesOf(0..MaxEnd, Len(rs)) :
        \A j \in 1..Len(rs) : rs[j].start <= t[j] /\ t[j] < rs[j].end}

RECURSIVE SizeProduct(_)
\* size(R1) * ... * size(Rn).
SizeProduct(rs) == IF rs = <<>> THEN 1 ELSE size(Head(rs)) * SizeProduct(Tail(rs))

\* a before b in lexicographic order, the first component most significant.
LexLess(a, b) ==
    \E j \in 1..Len(a) : a[j] < b[j] /\ \A i \in 1..(j - 1) : a[i] = b[i]

SomeEmpty(rs) == \E j \in 1..Len(rs) : rs[j].start = rs[j].end

\* C2: forEach(f, R1,...,Rn) calls f once for every tuple of R1 x ... x Rn
\* and for nothing else, in lexicographic order with R1 slowest and Rn
\* fastest, the indices in range order; the number of calls is
\* size(R1)*...*size(Rn), 0 when a range is empty.
C2_ForEachVisitsProductInOrder ==
    (fe.done /\ WellFormed(ranges)) =>
        /\ ~fe.ub
        /\ RangeOf(fe.calls) = CartesianProduct(ranges)
        /\ \A p, q \in 1..Len(fe.calls) : p < q => LexLess(fe.calls[p], fe.calls[q])
        /\ Len(fe.calls) = SizeProduct(ranges)
        /\ SomeEmpty(ranges) => fe.calls = <<>>

C2_Witness ==
    /\ fe.done
    /\ ranges = <<range(0, 2), range(1, 2)>>
    /\ fe.calls = << <<0, 1>>, <<1, 1>> >>

\* C3: sum(f, R1,...,Rn) calls f exactly size(R1)*...*size(Rn) times; when
\* a range is empty f is never called and the result is the additive
\* identity: constant 0 and no variable term.
C3_SumCallCount ==
    (sm.done /\ WellFormed(ranges)) =>
        /\ ~sm.ub
        /\ Len(sm.calls) = SizeProduct(ranges)
        /\ SomeEmpty(ranges) => (sm.calls = <<>> /\ sm.total = ZeroExpr)

C3_Witness ==
    /\ sm.done
    /\ ranges = <<range(0, 2), range(1, 1)>>
    /\ lambda = "expr"
    /\ sm.calls = <<>>
    /\ sm.total = ZeroExpr

\* What one result of f contributes: to the constant term, and to the
\* coefficient of variable v.
ConstantOf(t) ==
    LET x == Apply(lambda, t) IN
    CASE x.type \in {"int", "double"} -> x.val
      [] x.type = "var" -> 0
      [] x.type = "expr" -> x.expr.const
CoefficientOf(t, v) ==
    LET x == Apply(lambda, t) IN
    CASE x.type \in {"int", "double"} -> 0
      [] x.type = "var" -> IF x.var = v THEN 1 ELSE 0
      [] x.type = "expr" ->
            SumSeq([a \in 1..Len(x.expr.terms) |->
                       IF x.expr.terms[a].var = v THEN x.expr.terms[a].coef ELSE 0])

RECURSIVE TotalConstant(_)
\* The sum of ConstantOf over the tuples of a finite set.
TotalConstant(S) ==
    IF S = {} THEN 0
    ELSE LET t == CHOOSE x \in S : TRUE
         IN  ConstantOf(t) + TotalConstant(S \ {t})

RECURSIVE TotalCoefficient(_, _)
\* The sum of CoefficientOf(., v) over the tuples of a finite set.
TotalCoefficient(S, v) ==
    IF S = {} THEN 0
    ELSE LET t == CHOOSE x \in S : TRUE
         IN  CoefficientOf(t, v) + TotalCoefficient(S \ {t}, v)

\* The coefficient of variable v in a linear expression.
Coefficient(e, v) ==
    SumSeq([a \in 1..Len(e.terms) |-> IF e.terms[a].var = v THEN e.terms[a].coef ELSE 0])

\* The variables the lambdas refer to.
LambdaVars == 1..(MaxEnd + 1)

\* C4: sum(f, R1,...,Rn) returns the term-wise sum of f over all tuples of
\* the product, starting from the additive identity: an integer or real
\* result adds its value to the constant, a variable handle adds coefficient
\* 1 for that variable, a linear expression is added unchanged.
C4_SumIsTermwiseSum ==
    (sm.done /\ WellFormed(ranges)) =>
        /\ sm.total.const = TotalConstant(CartesianProduct(ranges))
        /\ \A v \in LambdaVars :
              Coefficient(sm.total, v) = TotalCoefficient(CartesianProduct(ranges), v)
        /\ \A a \in 1..Len(sm.total.terms) : sm.total.terms[a].var \in LambdaVars

C4_Witness ==
    /\ sm.done
    /\ ranges = <<range(0, 2), range(0, 2)>>
    /\ lambda = "expr"
    /\ sm.total.const = 12
    /\ Coefficient(sm.total, 1) = 4
    /\ Coefficient(sm.total, 2) = 4

\* C5: over identical ranges forEach and sum present the same sequence of
\* index tuples to f: same tuples, same nested order, first range slowest.
C5_SameOrderForEachAndSum ==
    (fe.done /\ sm.done /\ WellFormed(ranges)) =>
        /\ fe.calls = sm.calls
        /\ \A p, q \in 1..Len(sm.calls) : p < q => LexLess(sm.calls[p], sm.calls[q])

C5_Witness ==
    /\ fe.done
    /\ sm.done
    /\ ranges = <<range(0, 2), range(0, 2)>>
    /\ Len(fe.calls) = 4
    /\ sm.calls[2] = <<0, 1>>


\* ------------------------------------------------------------------ table history

\* C11: after any sequence of set calls, every slot holds the group passed to
\* the most recent set for its key (the default empty group if there was
\* none), and var(key, idx...) resolves inside that newest group only.
C11_SlotHoldsNewestGroup ==
    /\ \A key \in Keys : get(table, key) = newest[key]
    /\ \A key \in Keys : ~wasSet[key] => get(table, key) = DefaultGroup
    /\ last.op = "var" =>
          last.res = IF last.idx = <<>> THEN scalar(newest[last.key])
                     ELSE at(newest[last.key], last.idx)

C11_Witness ==
    /\ replaced = {1}
    /\ newest[0].dims = 1
    /\ last.op = "var"
    /\ last.key = 0
    /\ last.idx = <<1>>
    /\ last.res.status = "ok"
    /\ last.res.var = 3

C13_IndependentSameShape ==
    (~built.attached /\ built.state # "none") =>
        LET a == add(DEBUG_NAMES, model, 0, "B", 0, 1, "x", built.sizes) IN
        /\ Len(model) = built.before
        /\ model = <<>>
        /\ (built.err = "none") <=> (a.err = "none")
        /\ (built.state = "fresh" /\ built.sizes = <<>>) => built.var = NullVar
        /\ (built.state = "fresh" /\ built.sizes # <<>>) =>
              /\ built.kind = a.kind
              /\ built.group.dims = a.group.dims
              /\ \A idx \in IndexTuples :
                    at(built.group, idx).status = at(a.group, idx).status
              /\ RangeOf(LeafVars(built.group.root, built.group.dims)) \subseteq {NullVar}

C13_Witness ==
    /\ ~built.attached
    /\ built.state = "fresh"
    /\ built.sizes = <<2, 2>>
    /\ last.op = "at"
    /\ last.idx = <<1, 1>>
    /\ last.res.status = "ok"
    /\ last.res.var = NullVar


\* ------------------------------------------------------------------ empty dimensions

RECURSIVE NodesAt(_, _)
\* The nodes d levels below n.
NodesAt(n, d) ==
    IF d = 0 THEN {n}
    ELSE UNION {NodesAt(n.children[c], d - 1) : c \in 1..Len(n.children)}

\* The positions of a shape holding size 0 that the factory gets to: no
\* size before them is negative.
ZeroPositions(sizes) ==
    {p \in 1..Len(sizes) : sizes[p] = 0 /\ \A q \in 1..(p - 1) : sizes[q] >= 0}

\* C14: a size of 0 at any position is accepted without error by the
\* attached and by the independent create: the nodes at that level have no
\* children, no variable is registered, and at fails with IndexOutOfRange
\* for every tuple of k indices.
C14_ZeroSizeIsEmptyBranch ==
    (built.state # "none" /\ ZeroPositions(built.sizes) # {}) =>
        /\ built.state = "fresh"
        /\ built.err = "none"
        /\ Len(model) = built.before
        /\ \A p \in ZeroPositions(built.sizes) :
              \A n \in NodesAt(built.group.root, p - 1) : n.children = <<>>
        /\ \A idx \in TuplesOf(IndexArgs, Len(built.sizes)) :
              at(built.group, idx).status = "IndexOutOfRange"
        /\ last.op = "forEachAt" => last.visits = <<>>

C14_Witness ==
    /\ built.attached
    /\ built.state = "fresh"
    /\ built.sizes = <<2, 0>>
    /\ Len(built.group.root.children) = 2
    /\ last.op = "at"
    /\ last.idx = <<1, 0>>
    /\ last.res.status = "IndexOutOfRange"
    /\ last.res.examined = 2


\* ------------------------------------------------------------------ scalar access

\* C15: scalar() fails with NotScalar exactly when the group's dims is not 0;
\* on a group with dims = 0 it returns the root's handle, the one at() with
\* zero indices returns.
C15_ScalarFailsIffDimsNonZero ==
    last.op = "scalar" =>
        /\ (last.res.status = "NotScalar") <=> (built.group.dims # 0)
        /\ built.group.dims = 0 =>
              /\ last.res.status = "ok"
              /\ last.res.var = built.group.root.scalar
              /\ at(built.group, <<>>).status = "ok"
              /\ at(built.group, <<>>).var = last.res.var
              /\ at(built.group, <<>>).ref = last.res.ref

C15_Witness ==
    /\ last.op = "scalar"
    /\ built.attached
    /\ built.sizes = <<>>
    /\ built.group.dims = 0
    /\ last.res.status = "ok"
    /\ last.res.var = 1

\* scalar() on a group with dimensions: the failing side of C15.
C15_WitnessNotScalar ==
    /\ last.op = "scalar"
    /\ built.group.dims = 1
    /\ last.res.status = "NotScalar"


\* ------------------------------------------------------------------ constraint helpers

\* C16: each call of atMostOne or exactlyOne adds exactly one constraint to
\* the model, sum(f, R1,...,Rn) <= 1 respectively == 1 over the whole
\* product, whatever the number of tuples; never one constraint per tuple.
C16_OneAggregateConstraint ==
    [][((AtMostOne \/ ExactlyOne) /\ WellFormed(ranges)) =>
          /\ Len(constrs') = Len(constrs) + 1
          /\ SubSeq(constrs', 1, Len(constrs)) = constrs
          /\ LET c == constrs'[Len(constrs')] IN
                /\ AtMostOne => c.sense = "<="
                /\ ExactlyOne => c.sense = "="
                /\ c.rhs = NumExpr(1)
                /\ c.lhs.const = TotalConstant(CartesianProduct(ranges))
                /\ \A v \in LambdaVars :
                      Coefficient(c.lhs, v) = TotalCoefficient(CartesianProduct(ranges), v)]_vars

C16_Witness ==
    /\ ranges = <<range(0, 2), range(0, 2)>>
    /\ lambda = "var"
    /\ Len(constrs) = 2
    /\ constrs[1].sense = "="
    /\ constrs[2].sense = "<="
    /\ Len(constrs[1].lhs.terms) = 4
    /\ Coefficient(constrs[1].lhs, 1) = 2
    /\ constrs[2].rhs = NumExpr(1)

RECURSIVE EvalTerms(_, _)
\* The value of an expression when variable v has value asg[v].
EvalTerms(ts, asg) ==
    IF ts = <<>> THEN 0
    ELSE Head(ts).coef * asg[Head(ts).var] + EvalTerms(Tail(ts), asg)
Eval(e, asg) == e.const + EvalTerms(e.terms, asg)

\* Whether an assignment satisfies a constraint of the model.
Holds(c, asg) ==
    CASE c.sense = "<=" -> Eval(c.lhs, asg) <= Eval(c.rhs, asg)
      [] c.sense = ">=" -> Eval(c.lhs, asg) >= Eval(c.rhs, asg)
      [] c.sense = "=" -> Eval(c.lhs, asg) = Eval(c.rhs, asg)

\* The 0/1 assignments to the variables of the model.
Assignments == [1..Len(model) -> 0..1]

\* C17: conBigM_Le adds exactly the one constraint lhs <= rhs + M*(1 - bin),
\* which is lhs <= rhs when bin = 1 and lhs <= rhs + M when bin = 0;
\* conBigM_Ge adds exactly lhs >= rhs - M*(1 - bin); this for every M
\* given, zero and negative included.
C17_BigMConstraint ==
    [][\A lhs \in BigMLhs, rhs \in BigMRhs, M \in BigMs, name \in BigMNames :
          LET bin == Len(model)
              c == constrs'[Len(constrs')]
          IN  /\ ConBigM_Le(lhs, rhs, bin, M, name) =>
                    /\ Len(constrs') = Len(constrs) + 1
                    /\ SubSeq(constrs', 1, Len(constrs)) = constrs
                    /\ c.name = name
                    /\ \A asg \in Assignments :
                          /\ Holds(c, asg) <=>
                                Eval(lhs, asg) <= Eval(rhs, asg) + M * (1 - asg[bin])
                          /\ asg[bin] = 1 =>
                                (Holds(c, asg) <=> Eval(lhs, asg) <= Eval(rhs, asg))
                          /\ asg[bin] = 0 =>
                                (Holds(c, asg) <=> Eval(lhs, asg) <= Eval(rhs, asg) + M)
              /\ ConBigM_Ge(lhs, rhs, bin, M, name) =>
                    /\ Len(constrs') = Len(constrs) + 1
                    /\ SubSeq(constrs', 1, Len(constrs)) = constrs
                    /\ c.name = name
                    /\ \A asg \in Assignments :
                          Holds(c, asg) <=>
                             Eval(lhs, asg) >= Eval(rhs, asg) - M * (1 - asg[bin])]_vars

\* conBigM_Le(model, x0, 4, bin, -1) then conBigM_Ge(model, x0, 4, bin, 0).
C17_Witness ==
    /\ Len(constrs) = 2
    /\ constrs[1] = conBigM_Le(<<>>, VarExpr(1), NumExpr(4), Len(model), -1, "link")[1]
    /\ constrs[1].rhs.const = 3
    /\ constrs[2] = conBigM_Ge(<<>>, VarExpr(1), NumExpr(4), Len(model), 0, "link")[1]
    /\ constrs[2].sense = ">="


\* ------------------------------------------------------------------ solve

\* C18: solve() never lets an error escape: whatever a hook, an option
\* setting or optimize throws (a solver exception, a standard exception, or
\* any other thrown value), solve returns a result with success == false and
\* a non-empty errorMsg.
C18_SolveNeverThrows ==
    mb.solves > 0 =>
        /\ mb.escaped = "none"
        /\ mb.thrown.kind # "none" =>
              /\ ~mb.result.success
              /\ mb.result.errorMsg # ""

\* A hook threw a value that is no exception class, in the second call.
C18_Witness ==
    /\ mb.solves = 2
    /\ mb.calls = <<"createVariables", "addConstraints">>
    /\ mb.thrown.kind = "other"
    /\ mb.escaped = "none"
    /\ ~mb.result.success
    /\ mb.result.errorMsg = "Unknown exception during solve()"


\* ------------------------------------------------------------------ comprehensions

\* C19: compND, and sumOver over a list of sets, enumerate the tuples of the
\* cartesian product in the nested order of forEach (first set slowest),
\* each tuple once, and apply f to each in that order: the result has as
\* many elements as the product of the set sizes, and is empty when the list
\* is empty or a set is empty.
C19_CompNDInForEachOrder ==
    cp.op \in {"compND", "sumOver"} =>
        /\ cp.err = "none"
        /\ ranges = <<>> => cp.calls = <<>>
        /\ ranges # <<>> =>
              /\ cp.calls = forEach(ranges).calls
              /\ Len(cp.calls) = SizeProduct(ranges)
        /\ NoDuplicates(cp.calls)
        /\ SomeEmpty(ranges) => cp.calls = <<>>
        /\ cp.op = "compND" =>
              /\ Len(cp.out) = Len(cp.calls)
              /\ \A p \in 1..Len(cp.out) : cp.out[p] = Apply(lambda, cp.calls[p])
        /\ cp.op = "sumOver" =>
              /\ cp.total.const = TotalConstant(RangeOf(cp.calls))
              /\ \A v \in LambdaVars :
                    Coefficient(cp.total, v) = TotalCoefficient(RangeOf(cp.calls), v)

C19_Witness ==
    /\ cp.op = "compND"
    /\ ranges = <<range(0, 2), range(1, 2)>>
    /\ lambda = "double"
    /\ cp.calls = << <<0, 1>>, <<1, 1>> >>
    /\ cp.out[2].val = 4

\* C20: comp over one range R returns the sequence whose a-th element is f
\* of the a-th element of R, of length R.size(); comp over two ranges
\* returns a sequence of size(R1) rows of size(R2) elements each, whose
\* element [a][b] is f(R1[a], R2[b]).
C20_CompShape ==
    /\ (cp.op = "comp1" /\ WellFormed(ranges)) =>
          /\ cp.err = "none"
          /\ Len(cp.out) = size(ranges[1])
          /\ \A a \in 1..Len(cp.out) :
                cp.out[a] = Apply(lambda, <<VectorOf(ranges[1])[a]>>)
    /\ (cp.op = "comp2" /\ WellFormed(ranges)) =>
          /\ cp.err = "none"
          /\ Len(cp.out) = size(ranges[1])
          /\ \A a \in 1..Len(cp.out) :
                /\ Len(cp.out[a]) = size(ranges[2])
                /\ \A b \in 1..Len(cp.out[a]) :
                      cp.out[a][b] =
                          Apply(lambda, <<VectorOf(ranges[1])[a], VectorOf(ranges[2])[b]>>)

C20_Witness ==
    /\ cp.op = "comp2"
    /\ ranges = <<range(0, 2), range(1, 2)>>
    /\ lambda = "double"
    /\ Len(cp.out) = 2
    /\ Len(cp.out[1]) = 1
    /\ cp.out[2][1].val = 4

\* comp over a single range: the one-range side of C20.
C20_WitnessOneRange ==
    /\ cp.op = "comp1"
    /\ ranges = <<range(1, 2)>>
    /\ lambda = "double"
    /\ Len(cp.out) = 1
    /\ cp.out[1].val = 3

\* ------------------------------------------------------------------ C21

RECURSIVE Joined(_, _)
\* The decimal forms of idx from position k on, each but the last followed by ",".
Joined(idx, k) ==
    IF k > Len(idx) THEN ""
    ELSE ToString(idx[k]) \o (IF k < Len(idx) THEN "," ELSE "") \o Joined(idx, k + 1)

\* C21: nameND(base, idx...) returns "" for every input with the naming flag
\* off; with the flag on it returns base for zero indices and otherwise
\* base, "[", the indices in argument order separated by ",", and "]"
\* (nameND("x", 2, 1) = "x[2,1]"). cnameND does the same under its own flag.
C21_NameNDFormat ==
    nm.op \in {"nameND", "cnameND"} =>
        /\ ~nm.flag => nm.res = ""
        /\ (nm.flag /\ nm.args = <<>>) => nm.res = nm.base
        /\ (nm.flag /\ nm.args # <<>>) =>
              nm.res = nm.base \o "[" \o Joined(nm.args, 1) \o "]"
        /\ (nm.flag /\ nm.base = "x" /\ nm.args = <<2, 1>>) => nm.res = "x[2,1]"

\* nameND("x", 2, 1) was called in a build with names on.
C21_Witness ==
    /\ nm.op = "nameND"
    /\ nm.flag
    /\ nm.base = "x"
    /\ nm.args = <<2, 1>>
    /\ nm.res = "x[2,1]"

\* A name was asked for in a build with names off.
C21_WitnessDisabled ==
    /\ nm.op = "nameND"
    /\ ~nm.flag
    /\ nm.args = <<0>>
    /\ nm.res = ""

\* ------------------------------------------------------------------ C22

RECURSIVE PartsFrom(_, _)
\* The string forms of parts[k..], one after the other.
PartsFrom(parts, k) ==
    IF k > Len(parts) THEN ""
    ELSE (IF parts[k].type = "int" THEN ToString(parts[k].val) ELSE parts[k].str)
         \o PartsFrom(parts, k + 1)

\* C22 as claimed: make_name(parts...) returns the concatenation of the
\* string forms of its parts in argument order, for every argument list and
\* whatever the naming flag, for naming::make_name and dsl::make_name alike.
C22_MakeNameConcatenates ==
    nm.op \in {"naming::make_name", "dsl::make_name"} =>
        nm.res = PartsFrom(nm.args, 1)

\* C22 as amended: dsl::make_name returns the concatenation whatever the
\* naming flag; naming::make_name returns it with the flag on, and "" for
\* every argument list with the flag off.
C22_MakeNameConcatenatesWhenEnabled ==
    /\ nm.op = "dsl::make_name" => nm.res = PartsFrom(nm.args, 1)
    /\ (nm.op = "naming::make_name" /\ nm.flag) => nm.res = PartsFrom(nm.args, 1)
    /\ (nm.op = "naming::make_name" /\ ~nm.flag) => nm.res = ""

\* naming::make_name("x_", 1) was called in a build with names on.
C22_Witness ==
    /\ nm.op = "naming::make_name"
    /\ nm.flag
    /\ nm.args = <<StrPart("x_"), IntPart(1)>>
    /\ nm.res = "x_1"

\* dsl::make_name("x_", -1) was called in a build with names off.
C22_WitnessDsl ==
    /\ nm.op = "dsl::make_name"
    /\ ~nm.flag
    /\ nm.args = <<StrPart("x_"), IntPart(-1)>>
    /\ nm.res = "x_-1"

\* ------------------------------------------------------------------ C23

\* start, start + 1, ..., end - 1.
Ascending(start, end) == [k \in 1..(end - start) |-> start + k - 1]

\* C23: for every n >= 0, indices(n) has size n and iterating it yields
\* exactly 0, 1, ..., n-1 in ascending order; range(start, end) with
\* start <= end yields exactly start, ..., end-1; every traversal of a view
\* yields the same sequence, however many were made before it.
C23_RangeYieldsAscending ==
    (rv.made /\ rv.r.start <= rv.r.end) =>
        /\ ~rv.ub
        /\ \A t \in 1..Len(rv.runs) : rv.runs[t] = Ascending(rv.r.start, rv.r.end)
        /\ rv.iterating =>
              /\ Len(rv.out) <= rv.r.end - rv.r.start
              /\ rv.out = SubSeq(Ascending(rv.r.start, rv.r.end), 1, Len(rv.out))
        /\ rv.by = "indices" =>
              /\ rv.sized => rv.size = rv.arg[1]
              /\ \A t \in 1..Len(rv.runs) :
                    /\ Len(rv.runs[t]) = rv.arg[1]
                    /\ \A k \in 1..rv.arg[1] : rv.runs[t][k] = k - 1

\* indices(2) reported size 2 and was traversed twice, 0 then 1 each time.
C23_Witness ==
    /\ rv.by = "indices"
    /\ rv.arg = <<2>>
    /\ rv.sized
    /\ rv.size = 2
    /\ rv.runs = << <<0, 1>>, <<0, 1>> >>

\* range(1, 2) was traversed and yielded 1.
C23_WitnessRange ==
    /\ rv.by = "range"
    /\ rv.arg = <<1, 2>>
    /\ rv.runs = << <<1>> >>

\* ------------------------------------------------------------------ C24

\* C24 as claimed: size() returns end - start when start <= end and 0 when
\* end <= start; it is never negative, for every pair (start, end) the
\* constructor accepts.
C24_SizeNeverNegative ==
    (rv.made /\ rv.sized) =>
        /\ rv.r.start <= rv.r.end => rv.size = rv.r.end - rv.r.start
        /\ rv.r.end <= rv.r.start => rv.size = 0
        /\ rv.size >= 0

\* ------------------------------------------------------------------ C26

\* Some range of the list was constructed with end < start.
SomeReversed(rs) == \E j \in 1..Len(rs) : rs[j].end < rs[j].start

\* C26 as claimed: a range constructed with end < start behaves as an empty
\* range, so forEach and sum over any ranges that include it invoke f zero
\* times and terminate.
C26_ReversedRangeIsEmpty ==
    SomeReversed(ranges) =>
        /\ fe.done => (fe.calls = <<>> /\ ~fe.ub)
        /\ sm.done => (sm.calls = <<>> /\ ~sm.ub /\ sm.total = ZeroExpr)

\* ------------------------------------------------------------------ C25

\* The statements solve() makes up to optimize, as the claim orders them.
BuildThenOptimize ==
    <<"createVariables", "addConstraints", "setObjective", "configureModel",
      "update", "setOptions", "optimize">>

\* q starts with p.
IsPrefix(p, q) == Len(p) <= Len(q) /\ SubSeq(q, 1, Len(p)) = p

\* C25: every call of solve() runs createVariables, addConstraints,
\* setObjective, configureModel (with the model update of buildModel), the
\* option settings and optimize, each exactly once and in that order; if a
\* step throws, none of the later steps runs, so optimize is never called
\* on a model whose build phase failed.
C25_BuildStepsInOrder ==
    mb.solves > 0 =>
        /\ NoDuplicates(mb.calls)
        /\ \/ IsPrefix(mb.calls, BuildThenOptimize)
           \/ IsPrefix(BuildThenOptimize, mb.calls)
        /\ mb.thrown.kind = "none" => IsPrefix(BuildThenOptimize, mb.calls)
        /\ mb.thrown.kind # "none" =>
              /\ mb.calls # <<>>
              /\ mb.calls[Len(mb.calls)] = mb.threwAt
              /\ \A k \in 1..Len(BuildThenOptimize) :
                    mb.threwAt = BuildThenOptimize[k]
                    => (mb.calls = SubSeq(BuildThenOptimize, 1, k) /\ ~mb.optimized)
        /\ mb.optimized =>
              /\ IsPrefix(BuildThenOptimize, mb.calls)
              /\ mb.thrown.kind = "none" \/ Len(mb.calls) > Len(BuildThenOptimize)

\* setObjective threw in the second call: configureModel, the options and
\* optimize were not run.
C25_Witness ==
    /\ mb.solves = 2
    /\ mb.thrown.kind = "std::exception"
    /\ mb.threwAt = "setObjective"
    /\ mb.calls = <<"createVariables", "addConstraints", "setObjective">>
    /\ ~mb.optimized

\* A call in which nothing threw: every step ran, optimize last of the six.
C25_WitnessAllSteps ==
    /\ mb.solves = 1
    /\ mb.thrown.kind = "none"
    /\ mb.optimized
    /\ SubSeq(mb.calls, 1, 7) = BuildThenOptimize

\* ------------------------------------------------------------------ C27

\* C27 as claimed: on a freshly constructed builder, solve(opts) calls
\* optimize with the solver's output flag enabled when opts.verbose is true
\* and disabled when it is false, for ModelBuilder and ModelBuilderGeneric.
C27_OutputFollowsVerbose ==
    (mb.solves = 1 /\ mb.optimized) =>
        /\ mb.opts.verbose => mb.inForce.OutputFlag = 1
        /\ ~mb.opts.verbose => mb.inForce.OutputFlag = 0

\* ------------------------------------------------------------------ C28

\* C28 as claimed: in any sequence of solve calls on one builder, a call
\* with opts.timeLimitSec = 0 runs optimize with no time limit in force, and
\* likewise mipGap, threads, solutionLimit and nodeLimit at 0 leave the
\* solver default in force, also when an earlier call on that builder
\* passed a positive value for the same option.
C28_ZeroMeansDefault ==
    (mb.solves > 0 /\ mb.optimized) =>
        /\ mb.opts.timeLimitSec = 0 => mb.inForce.TimeLimit = DefaultParams.TimeLimit
        /\ mb.opts.mipGap = 0 => mb.inForce.MIPGap = DefaultParams.MIPGap
        /\ mb.opts.threads = 0 => mb.inForce.Threads = DefaultParams.Threads
        /\ mb.opts.solutionLimit = 0 =>
              mb.inForce.SolutionLimit = DefaultParams.SolutionLimit
        /\ mb.opts.nodeLimit = 0 => mb.inForce.NodeLimit = DefaultParams.NodeLimit

\* ------------------------------------------------------------------ C29

\* C29: solve() rebuilds on the same solver model at every call.  The
\* example builder registers v = MaxSize variables in createVariables and
\* c = 1 constraint in addConstraints: after n calls, all successful, the
\* model holds n*v variables and n*c constraints, and the table reaches
\* only the v variables of the last call; those of the earlier calls are
\* registered but orphaned by the overwriting set.
C29_EverySolveRebuilds ==
    (mb.solves > 0 /\ mb.succeeded = mb.solves) =>
        /\ Len(model) = mb.solves * MaxSize
        /\ Len(constrs) = mb.solves * 1
        /\ Handles(table[X]) = ((mb.solves - 1) * MaxSize + 1)..(mb.solves * MaxSize)
        /\ \A i \in 0..(MaxSize - 1) :
              LET r == var(table, X, <<i>>)
              IN  r.status = "ok" /\ r.var = (mb.solves - 1) * MaxSize + i + 1
        /\ replaced = 1..((mb.solves - 1) * MaxSize)
        /\ \A k \in 1..Len(constrs) :
              \A j \in 1..Len(constrs[k].lhs.terms) :
                  constrs[k].lhs.terms[j].var \in ((k - 1) * MaxSize + 1)..(k * MaxSize)

\* Two successful calls: twice the variables and constraints, the first
\* call's variables orphaned.
C29_Witness ==
    /\ mb.solves = 2
    /\ mb.succeeded = 2
    /\ Len(model) = 2 * MaxSize
    /\ Len(constrs) = 2
    /\ replaced = 1..MaxSize
    /\ 1 \notin Handles(table[X])

\* ------------------------------------------------------------------ C30

\* C30: if the solver's variable creation fails on the m-th leaf while an
\* attached add is building a shape with at least m leaves, the solver's
\* error reaches the caller unchanged, no variable or group is returned (a
\* table slot meant to receive it keeps its content), and the m-1 variables
\* registered before the failure stay registered: there is no rollback.
C30_NoRollbackOnSolverFailure ==
    /\ [](built.attached =>
            /\ (built.fault \in 1..Product(built.sizes)) <=> built.err = "GRBException"
            /\ built.err = "GRBException" =>
                  /\ built.state = "failed"
                  /\ built.var = NullVar
                  /\ built.group = DefaultGroup
                  /\ Len(model) = built.before + built.fault - 1
                  /\ \A k \in (built.before + 1)..Len(model) :
                        /\ model[k].vtype = built.decl.vtype
                        /\ model[k].lb = built.decl.lb
                        /\ model[k].ub = built.decl.ub)
    /\ [][/\ Len(model') >= Len(model)
          /\ SubSeq(model', 1, Len(model)) = model
          /\ (built'.err = "GRBException" /\ built' # built) => table' = table
          /\ built.err = "GRBException" => table' = table]_vars

\* The slot holds a scalar; an add of two leaves then failed on its second:
\* the first leaf's variable is in the model and the slot is as it was.
C30_Witness ==
    /\ built.err = "GRBException"
    /\ built.sizes = <<2>>
    /\ built.fault = 2
    /\ built.before = 1
    /\ Len(model) = 2
    /\ wasSet[0]
    /\ table[0] = ScalarGroup(1)

====
